---- MODULE Spec2Model ----
(***************************************************************************)
(* Model of the resume scoring and projection pipeline                     *)
(* (FoXDev-404/resume_module): ScoringService, ImpactService,              *)
(* ProjectionService, the retrying collaborator calls of EmbeddingService  *)
(* and RewriteService, and the analyze_resume handler of app/main.py.      *)
(*                                                                         *)
(* Numbers.  Python floats that the code rounds to two decimals (component *)
(* scores, contributions, averages) are integers counting hundredths of a  *)
(* point: 70.0 is 7000, 100.0 is 10000.  Integer results of the code       *)
(* (final_score, impact_score, improvement) are plain integers.  round()   *)
(* is Python's round-half-to-even, computed on the exact value; on an      *)
(* exact tie the code's float sum may sit on either side of the tie.       *)
(***************************************************************************)
EXTENDS Integers, Sequences, FiniteSets, TLC

\* ------------------------------------------------------------------ bounds

\* Longest list of bullets a resume yields in the model.
MaxBullets == 2

\* Longest list of keywords a job description yields in the model.
MaxKeywords == 2

\* Longest list of weak bullets handed to rewrite_bullets on its own.
MaxWeakBullets == 4

\* ------------------------------------------------------- program constants

\* Two decimals: round(score, 2) keeps hundredths of a point.
Hundredths == 100

MIN_JD_LENGTH == 50

MAX_JD_LENGTH == 50000

TOP_KEYWORDS_COUNT == 30

MAX_BULLETS_TO_REWRITE == 3

MAX_KEYWORDS_TO_INJECT == 5

\* stop_after_attempt(3) of the tenacity retry decorators.
MAX_ATTEMPTS == 3

\* The score a rewritten bullet is assumed to reach.
REWRITE_SCORE == 95

\* ----------------------------------------------------------------- helpers

Min(a, b) == IF a <= b THEN a ELSE b

Max(a, b) == IF a >= b THEN a ELSE b

\* Truncation of n / d for d > 0, where rounding was meant.
RoundDown(n, d) == n \div d

\* Python round(n / d) for d > 0: nearest integer, ties to the even one.
RoundHalfEven(n, d) ==
    LET q == n \div d
        r == n % d
    IN  IF 2 * r < d THEN q
        ELSE IF 2 * r > d THEN q + 1
        ELSE IF q % 2 = 0 THEN q ELSE q + 1

\* list[:n]
Take(s, n) == SubSeq(s, 1, Min(Len(s), Max(n, 0)))

\* ------------------------------------------------------------------- texts
\* A text is the sequence of its characters; re.search with re.IGNORECASE
\* is modelled on that sequence.

UpperLetters ==
    << "A", "B", "C", "D", "E", "F", "G", "H", "I", "J", "K", "L", "M",
       "N", "O", "P", "Q", "R", "S", "T", "U", "V", "W", "X", "Y", "Z" >>

LowerLetters ==
    << "a", "b", "c", "d", "e", "f", "g", "h", "i", "j", "k", "l", "m",
       "n", "o", "p", "q", "r", "s", "t", "u", "v", "w", "x", "y", "z" >>

\* str.lower() on one character.
LowerChar(c) ==
    IF \E i \in 1..Len(UpperLetters) : UpperLetters[i] = c
    THEN LowerLetters[CHOOSE i \in 1..Len(UpperLetters) : UpperLetters[i] = c]
    ELSE c

\* str.lower().
LowerText(t) == [ i \in 1..Len(t) |-> LowerChar(t[i]) ]

\* The characters outside ASCII that normalize_unicode knows, each standing
\* as one character of a text.
EnDash == "U+2013"

EmDash == "U+2014"

LeftSingleQuote == "U+2018"

RightSingleQuote == "U+2019"

LeftDoubleQuote == "U+201C"

RightDoubleQuote == "U+201D"

BulletPoint == "U+2022"

NoBreakSpace == "U+00A0"

\* \d, \s and \w.
IsDigit(c) == c \in { "0", "1", "2", "3", "4", "5", "6", "7", "8", "9" }

IsSpace(c) == c \in { " ", "\t", "\n", NoBreakSpace }

IsWordChar(c) ==
    \/ IsDigit(c)
    \/ c = "_"
    \/ \E i \in 1..Len(LowerLetters) : LowerLetters[i] = LowerChar(c)

\* The character at a position, nothing outside the text.
At(t, i) == IF i \in 1..Len(t) THEN t[i] ELSE ""

\* \b in front of position i.
WordBoundary(t, i) == IsWordChar(At(t, i - 1)) # IsWordChar(At(t, i))

\* \d+ matches the positions i..j.
DigitRun(t, i, j) == i <= j /\ \A k \in i..j : IsDigit(At(t, k))

\* \s* matches the positions i..(k - 1), none if k = i.
SpaceRun(t, i, k) == i <= k /\ \A m \in i..(k - 1) : IsSpace(At(t, m))

\* A literal in lower case matches at position i, whatever the case.
LiteralAt(t, i, w) ==
    \A m \in 1..Len(w) : LowerChar(At(t, i + m - 1)) = w[m]

\* \d+ followed by a literal.
DigitsThenLiteral(t, w) ==
    \E i, j \in 1..Len(t) : DigitRun(t, i, j) /\ LiteralAt(t, j + 1, w)

\* [\b] \d+ \s* (w1|w2|...) [\b]
DigitsThenWord(t, words, leading_b, trailing_b) ==
    \E i, j \in 1..Len(t) :
        /\ DigitRun(t, i, j)
        /\ leading_b => WordBoundary(t, i)
        /\ \E k \in (j + 1)..(Len(t) + 1), w \in words :
             /\ SpaceRun(t, j + 1, k)
             /\ LiteralAt(t, k, w)
             /\ trailing_b => WordBoundary(t, k + Len(w))

\* (w1|w2|...) \s+ by \s+ \d+
WordByDigits(t, words) ==
    \E i \in 1..Len(t), w \in words :
        /\ LiteralAt(t, i, w)
        /\ \E k, m \in 1..Len(t) :
             /\ k > i + Len(w) /\ SpaceRun(t, i + Len(w), k)
             /\ LiteralAt(t, k, << "b", "y" >>)
             /\ m > k + 2 /\ SpaceRun(t, k + 2, m)
             /\ IsDigit(At(t, m))

Magnitudes ==
    { << "m", "i", "l", "l", "i", "o", "n" >>,
      << "t", "h", "o", "u", "s", "a", "n", "d" >>,
      << "b", "i", "l", "l", "i", "o", "n" >>,
      << "k" >>,
      << "m" >>,
      << "b" >> }

Percents ==
    { << "p", "e", "r", "c", "e", "n", "t" >>,
      << "p", "e", "r", "c", "e", "n", "t", "a", "g", "e" >> }

Counted ==
    { << "u", "s", "e", "r", "s" >>,
      << "c", "u", "s", "t", "o", "m", "e", "r", "s" >>,
      << "c", "l", "i", "e", "n", "t", "s" >>,
      << "p", "r", "o", "j", "e", "c", "t", "s" >>,
      << "p", "e", "o", "p", "l", "e" >>,
      << "t", "e", "a", "m", " ", "m", "e", "m", "b", "e", "r", "s" >>,
      << "e", "m", "p", "l", "o", "y", "e", "e", "s" >> }

Durations ==
    { << "h", "o", "u", "r", "s" >>,
      << "d", "a", "y", "s" >>,
      << "w", "e", "e", "k", "s" >>,
      << "m", "o", "n", "t", "h", "s" >>,
      << "y", "e", "a", "r", "s" >> }

ChangeVerbs ==
    { << "i", "n", "c", "r", "e", "a", "s", "e", "d" >>,
      << "r", "e", "d", "u", "c", "e", "d" >>,
      << "i", "m", "p", "r", "o", "v", "e", "d" >>,
      << "d", "e", "c", "r", "e", "a", "s", "e", "d" >>,
      << "g", "r", "e", "w" >> }

\* The search of detect_quantification, lines 151-167, for its nine
\* patterns in turn.
SearchQuantification(t) ==
    \/ DigitsThenLiteral(t, << "%" >>)
    \/ \E i \in 1..Len(t) : At(t, i) = "$" /\ IsDigit(At(t, i + 1))
    \/ DigitsThenWord(t, Magnitudes, FALSE, TRUE)
    \/ DigitsThenLiteral(t, << "+" >>)
    \/ DigitsThenLiteral(t, << "x" >>)
    \/ DigitsThenWord(t, Percents, FALSE, FALSE)
    \/ DigitsThenWord(t, Counted, TRUE, TRUE)
    \/ DigitsThenWord(t, Durations, FALSE, FALSE)
    \/ WordByDigits(t, ChangeVerbs)

\* ------------------------------------------------ KeywordService on texts
\* Keywords and resumes as sequences of characters.

\* w in t
IsSubstring(w, t) ==
    \E o \in 0..(Len(t) - Len(w)) : \A m \in 1..Len(w) : t[o + m] = w[m]

\* The reference sets of KeywordService.__init__, lines 21-52.
technical_skills ==
    { << "p", "y", "t", "h", "o", "n" >>,
      << "j", "a", "v", "a" >>,
      << "j", "a", "v", "a", "s", "c", "r", "i", "p", "t" >>,
      << "t", "y", "p", "e", "s", "c", "r", "i", "p", "t" >>,
      << "c", "+", "+" >>,
      << "c", "#" >>,
      << "r", "u", "b", "y" >>,
      << "g", "o" >>,
      << "r", "u", "s", "t" >>,
      << "p", "h", "p" >>,
      << "s", "w", "i", "f", "t" >>,
      << "k", "o", "t", "l", "i", "n" >>,
      << "s", "c", "a", "l", "a" >>,
      << "r" >>,
      << "m", "a", "t", "l", "a", "b" >>,
      << "s", "q", "l" >>,
      << "n", "o", "s", "q", "l" >>,
      << "h", "t", "m", "l" >>,
      << "c", "s", "s" >>,
      << "r", "e", "a", "c", "t" >>,
      << "a", "n", "g", "u", "l", "a", "r" >>,
      << "v", "u", "e" >>,
      << "n", "o", "d", "e" >>,
      << "d", "j", "a", "n", "g", "o" >>,
      << "f", "l", "a", "s", "k" >>,
      << "s", "p", "r", "i", "n", "g" >>,
      << "e", "x", "p", "r", "e", "s", "s" >>,
      << "t", "e", "n", "s", "o", "r", "f", "l", "o", "w" >>,
      << "p", "y", "t", "o", "r", "c", "h" >>,
      << "k", "e", "r", "a", "s" >>,
      << "s", "c", "i", "k", "i", "t", "-", "l", "e", "a", "r", "n" >>,
      << "p", "a", "n", "d", "a", "s" >>,
      << "n", "u", "m", "p", "y" >>,
      << "m", "a", "c", "h", "i", "n", "e", " ", "l", "e", "a", "r", "n", "i", "n", "g" >>,
      << "d", "e", "e", "p", " ", "l", "e", "a", "r", "n", "i", "n", "g" >>,
      << "a", "i" >>,
      << "a", "r", "t", "i", "f", "i", "c", "i", "a", "l", " ", "i", "n", "t", "e", "l", "l", "i", "g", "e", "n", "c", "e" >>,
      << "d", "a", "t", "a", " ", "s", "c", "i", "e", "n", "c", "e" >>,
      << "n", "l", "p" >>,
      << "c", "o", "m", "p", "u", "t", "e", "r", " ", "v", "i", "s", "i", "o", "n" >>,
      << "n", "e", "u", "r", "a", "l", " ", "n", "e", "t", "w", "o", "r", "k", "s" >> }

soft_skills ==
    { << "l", "e", "a", "d", "e", "r", "s", "h", "i", "p" >>,
      << "c", "o", "m", "m", "u", "n", "i", "c", "a", "t", "i", "o", "n" >>,
      << "t", "e", "a", "m", "w", "o", "r", "k" >>,
      << "c", "o", "l", "l", "a", "b", "o", "r", "a", "t", "i", "o", "n" >>,
      << "p", "r", "o", "b", "l", "e", "m", "-", "s", "o", "l", "v", "i", "n", "g" >>,
      << "c", "r", "i", "t", "i", "c", "a", "l", " ", "t", "h", "i", "n", "k", "i", "n", "g" >>,
      << "a", "n", "a", "l", "y", "t", "i", "c", "a", "l" >>,
      << "c", "r", "e", "a", "t", "i", "v", "e" >>,
      << "a", "d", "a", "p", "t", "a", "b", "l", "e" >>,
      << "f", "l", "e", "x", "i", "b", "l", "e" >>,
      << "t", "i", "m", "e", " ", "m", "a", "n", "a", "g", "e", "m", "e", "n", "t" >>,
      << "o", "r", "g", "a", "n", "i", "z", "a", "t", "i", "o", "n", "a", "l" >>,
      << "d", "e", "t", "a", "i", "l", "-", "o", "r", "i", "e", "n", "t", "e", "d" >>,
      << "s", "e", "l", "f", "-", "m", "o", "t", "i", "v", "a", "t", "e", "d" >>,
      << "i", "n", "i", "t", "i", "a", "t", "i", "v", "e" >>,
      << "p", "r", "e", "s", "e", "n", "t", "a", "t", "i", "o", "n" >>,
      << "i", "n", "t", "e", "r", "p", "e", "r", "s", "o", "n", "a", "l" >>,
      << "m", "e", "n", "t", "o", "r", "i", "n", "g" >>,
      << "c", "o", "a", "c", "h", "i", "n", "g" >> }

tools ==
    { << "g", "i", "t" >>,
      << "g", "i", "t", "h", "u", "b" >>,
      << "g", "i", "t", "l", "a", "b" >>,
      << "b", "i", "t", "b", "u", "c", "k", "e", "t" >>,
      << "j", "i", "r", "a" >>,
      << "c", "o", "n", "f", "l", "u", "e", "n", "c", "e" >>,
      << "s", "l", "a", "c", "k" >>,
      << "d", "o", "c", "k", "e", "r" >>,
      << "k", "u", "b", "e", "r", "n", "e", "t", "e", "s" >>,
      << "j", "e", "n", "k", "i", "n", "s" >>,
      << "c", "i", "r", "c", "l", "e", "c", "i" >>,
      << "t", "r", "a", "v", "i", "s" >>,
      << "t", "e", "r", "r", "a", "f", "o", "r", "m" >>,
      << "a", "n", "s", "i", "b", "l", "e" >>,
      << "p", "u", "p", "p", "e", "t" >>,
      << "c", "h", "e", "f" >>,
      << "a", "w", "s" >>,
      << "a", "z", "u", "r", "e" >>,
      << "g", "c", "p" >>,
      << "h", "e", "r", "o", "k", "u" >>,
      << "v", "e", "r", "c", "e", "l" >>,
      << "l", "i", "n", "u", "x" >>,
      << "u", "n", "i", "x" >>,
      << "w", "i", "n", "d", "o", "w", "s" >>,
      << "m", "a", "c", "o", "s" >>,
      << "b", "a", "s", "h" >>,
      << "p", "o", "w", "e", "r", "s", "h", "e", "l", "l" >>,
      << "v", "s", "c", "o", "d", "e" >>,
      << "i", "n", "t", "e", "l", "l", "i", "j" >>,
      << "e", "c", "l", "i", "p", "s", "e" >>,
      << "p", "y", "c", "h", "a", "r", "m" >>,
      << "j", "u", "p", "y", "t", "e", "r" >> }

certifications ==
    { << "a", "w", "s", " ", "c", "e", "r", "t", "i", "f", "i", "e", "d" >>,
      << "a", "z", "u", "r", "e", " ", "c", "e", "r", "t", "i", "f", "i", "e", "d" >>,
      << "g", "c", "p", " ", "c", "e", "r", "t", "i", "f", "i", "e", "d" >>,
      << "p", "m", "p" >>,
      << "s", "c", "r", "u", "m", " ", "m", "a", "s", "t", "e", "r" >>,
      << "c", "i", "s", "s", "p" >>,
      << "c", "o", "m", "p", "t", "i", "a" >>,
      << "c", "e", "h" >>,
      << "c", "i", "s", "a" >>,
      << "c", "i", "s", "m" >>,
      << "i", "t", "i", "l" >>,
      << "c", "c", "n", "a" >>,
      << "c", "c", "n", "p" >>,
      << "c", "e", "r", "t", "i", "f", "i", "e", "d", " ", "k", "u", "b", "e", "r", "n", "e", "t", "e", "s" >>,
      << "t", "a", "b", "l", "e", "a", "u", " ", "c", "e", "r", "t", "i", "f", "i", "e", "d" >>,
      << >>,
      << "c", "f", "a" >>,
      << "s", "i", "x", " ", "s", "i", "g", "m", "a" >> }

\* A membership test in which the empty entry matches no keyword.
MatchesAnyNonEmpty(keyword_lower, reference) ==
    \E entry \in reference \ { << >> } : IsSubstring(entry, keyword_lower)

\* any(entry in keyword_lower for entry in reference)
MatchesAny(keyword_lower, reference) ==
    \E entry \in reference : IsSubstring(entry, keyword_lower)

\* A tagging that files every keyword under domain_terms as well.
TagsOfWithDomain(keyword) ==
    LET keyword_lower == LowerText(keyword)
    IN  { "domain_terms" }
        \cup (IF MatchesAny(keyword_lower, technical_skills)
              THEN { "technical_skills" } ELSE { })
        \cup (IF MatchesAny(keyword_lower, soft_skills)
              THEN { "soft_skills" } ELSE { })
        \cup (IF MatchesAny(keyword_lower, tools) THEN { "tools" } ELSE { })
        \cup (IF MatchesAny(keyword_lower, certifications)
              THEN { "certifications" } ELSE { })

\* A tagging that stops at the first reference set that matches.
TagsOfOnlyFirst(keyword) ==
    LET keyword_lower == LowerText(keyword)
    IN  IF MatchesAny(keyword_lower, technical_skills) THEN { "technical_skills" }
        ELSE IF MatchesAny(keyword_lower, soft_skills) THEN { "soft_skills" }
        ELSE IF MatchesAny(keyword_lower, tools) THEN { "tools" }
        ELSE IF MatchesAny(keyword_lower, certifications) THEN { "certifications" }
        ELSE { "domain_terms" }

\* The tags one keyword gets in the loop of categorize_keywords,
\* lines 188-213.
TagsOf(keyword) ==
    LET keyword_lower == LowerText(keyword)
        tags ==
            (IF MatchesAny(keyword_lower, technical_skills)
             THEN { "technical_skills" } ELSE { })
            \cup (IF MatchesAny(keyword_lower, soft_skills)
                  THEN { "soft_skills" } ELSE { })
            \cup (IF MatchesAny(keyword_lower, tools) THEN { "tools" } ELSE { })
            \cup (IF MatchesAny(keyword_lower, certifications)
                  THEN { "certifications" } ELSE { })
    IN  IF tags = { } THEN { "domain_terms" } ELSE tags

CategoryNames ==
    { "technical_skills", "soft_skills", "tools", "certifications",
      "domain_terms" }

\* categorize_keywords, lines 179-215.
categorize_keywords(keywords) ==
    [ c \in CategoryNames |-> SelectSeq(keywords, LAMBDA k : c \in TagsOf(k)) ]

\* s.endswith(suffix)
EndsWith(s, suffix) ==
    /\ Len(s) >= Len(suffix)
    /\ SubSeq(s, Len(s) - Len(suffix) + 1, Len(s)) = suffix

\* word[:-n]
DropLast(s, n) == SubSeq(s, 1, Len(s) - n)

\* lemmatize_word, lines 195-209 of text_utils.py.
lemmatize_word(w) ==
    LET word == LowerText(w)
    IN  IF EndsWith(word, << "i", "e", "s" >>) THEN DropLast(word, 3) \o << "y" >>
        ELSE IF EndsWith(word, << "e", "s" >>) THEN DropLast(word, 2)
        ELSE IF EndsWith(word, << "s" >>) /\ ~EndsWith(word, << "s", "s" >>)
             THEN DropLast(word, 1)
        ELSE IF EndsWith(word, << "i", "n", "g" >>) THEN DropLast(word, 3)
        ELSE IF EndsWith(word, << "e", "d" >>) THEN DropLast(word, 2)
        ELSE word

\* re.search(r'\b' + re.escape(keyword_lower) + r'\b', resume_lower)
SearchWholeWord(keyword_lower, resume_lower) ==
    \E i \in 1..(Len(resume_lower) + 1) :
        /\ i + Len(keyword_lower) - 1 <= Len(resume_lower)
        /\ \A m \in 1..Len(keyword_lower) :
             resume_lower[i + m - 1] = keyword_lower[m]
        /\ WordBoundary(resume_lower, i)
        /\ WordBoundary(resume_lower, i + Len(keyword_lower))

\* _check_partial_match, lines 263-267.
check_partial_match(keyword, text) == IsSubstring(lemmatize_word(keyword), text)

\* A matcher that tries the lemma before the whole word.
MatchLemmaFirst(resume_lower, keyword) ==
    LET keyword_lower == LowerText(keyword)
    IN  IF check_partial_match(keyword_lower, resume_lower) THEN "partial"
        ELSE IF SearchWholeWord(keyword_lower, resume_lower) THEN "exact"
        ELSE "missing"

\* The branch one keyword takes in the loop of match_keywords,
\* lines 233-244.
MatchState(resume_lower, keyword) ==
    LET keyword_lower == LowerText(keyword)
    IN  IF SearchWholeWord(keyword_lower, resume_lower) THEN "exact"
        ELSE IF check_partial_match(keyword_lower, resume_lower) THEN "partial"
        ELSE "missing"

\* match_keywords, lines 228-250.
match_keywords(resume, keywords) ==
    LET resume_lower == LowerText(resume)
        bucket(state) ==
            SelectSeq(keywords, LAMBDA k : MatchState(resume_lower, k) = state)
    IN  [ exact |-> bucket("exact"), partial |-> bucket("partial"),
          missing |-> bucket("missing") ]

\* --------------------------------------------- PreprocessService on texts

\* normalize_unicode on one character, lines 62-71 of text_utils.py.
ReplaceChar(c) ==
    CASE c = EnDash           -> "-"
      [] c = EmDash           -> "-"
      [] c = LeftSingleQuote  -> "'"
      [] c = RightSingleQuote -> "'"
      [] c = LeftDoubleQuote  -> "\""
      [] c = RightDoubleQuote -> "\""
      [] c = BulletPoint      -> BulletPoint
      [] c = NoBreakSpace     -> " "
      [] OTHER                -> c

\* normalize_unicode, lines 73-76 of text_utils.py: no replacement yields a
\* character that a later one replaces.
normalize_unicode(t) == [ i \in 1..Len(t) |-> ReplaceChar(t[i]) ]

RECURSIVE SkipSpaces(_)
\* The text from its first character that is not whitespace.
SkipSpaces(t) ==
    IF t # << >> /\ IsSpace(Head(t)) THEN SkipSpaces(Tail(t)) ELSE t

RECURSIVE CollapseSpaces(_)
\* re.sub(r'\s+', ' ', text), line 21 of text_utils.py.
CollapseSpaces(t) ==
    IF t = << >> THEN << >>
    ELSE IF IsSpace(Head(t)) THEN << " " >> \o CollapseSpaces(SkipSpaces(t))
    ELSE << Head(t) >> \o CollapseSpaces(Tail(t))

RECURSIVE DropTrailingSpaces(_)
DropTrailingSpaces(t) ==
    IF t # << >> /\ IsSpace(t[Len(t)])
    THEN DropTrailingSpaces(SubSeq(t, 1, Len(t) - 1))
    ELSE t

\* str.strip(), line 23 of text_utils.py.
Strip(t) == DropTrailingSpaces(SkipSpaces(t))

\* clean_whitespace, lines 20-24 of text_utils.py.
clean_whitespace(t) == Strip(CollapseSpaces(t))

RECURSIVE SkipNewlines(_)
SkipNewlines(t) ==
    IF t # << >> /\ Head(t) = "\n" THEN SkipNewlines(Tail(t)) ELSE t

RECURSIVE CapNewlines(_)
\* re.sub(r'\n{3,}', '\n\n', text), line 41.
CapNewlines(t) ==
    IF t = << >> THEN << >>
    ELSE IF Head(t) = "\n"
         THEN LET rest == SkipNewlines(t)
                  run == Len(t) - Len(rest)
              IN  [ i \in 1..Min(run, 2) |-> "\n" ] \o CapNewlines(rest)
    ELSE << Head(t) >> \o CapNewlines(Tail(t))

\* A cleaning that collapses blanks and tabs but keeps the line breaks.
CleanTextKeepingLines(t) ==
    LET u == normalize_unicode(t)
    IN  CapNewlines(Strip([ i \in 1..Len(u) |->
                              IF u[i] = "\t" THEN " " ELSE u[i] ]))

\* clean_text, lines 34-44.
clean_text(t) == CapNewlines(clean_whitespace(normalize_unicode(t)))

\* [\u2022\u25cf\u25cb\u25a0\u25a1\u25aa\u25ab\-\*] of is_bullet_point and
\* strip_bullet_marker.
BulletMarkers ==
    { BulletPoint, "U+25CF", "U+25CB", "U+25A0", "U+25A1", "U+25AA", "U+25AB",
      "-", "*" }

\* is_bullet_point, lines 222-224 of text_utils.py: a marker and at least
\* one whitespace character at the start of the stripped line.
is_bullet_point(line) ==
    LET l == Strip(line)
    IN  Len(l) >= 2 /\ l[1] \in BulletMarkers /\ IsSpace(l[2])

\* strip_bullet_marker, lines 237-239 of text_utils.py.
strip_bullet_marker(line) ==
    LET l == Strip(line)
    IN  IF Len(l) >= 2 /\ l[1] \in BulletMarkers /\ IsSpace(l[2])
        THEN SkipSpaces(Tail(l)) ELSE l

RECURSIVE SplitLines(_)
\* text.split('\n'), line 56.
SplitLines(t) ==
    IF \A i \in 1..Len(t) : t[i] # "\n" THEN << t >>
    ELSE LET n == CHOOSE i \in 1..Len(t) :
                    t[i] = "\n" /\ \A j \in 1..(i - 1) : t[j] # "\n"
         IN  << SubSeq(t, 1, n - 1) >> \o SplitLines(SubSeq(t, n + 1, Len(t)))

RECURSIVE SplitWords(_)
\* str.split(): the runs of characters that are not whitespace.
SplitWords(t) ==
    LET u == SkipSpaces(t)
    IN  IF u = << >> THEN << >>
        ELSE LET n == IF \E i \in 1..Len(u) : IsSpace(u[i])
                      THEN (CHOOSE i \in 1..Len(u) :
                              IsSpace(u[i]) /\ \A j \in 1..(i - 1) : ~IsSpace(u[j])) - 1
                      ELSE Len(u)
             IN  << SubSeq(u, 1, n) >> \o SplitWords(SubSeq(u, n + 1, Len(u)))

\* action_verbs of _starts_with_action_verb, lines 139-149.
action_verbs ==
    { << "a", "c", "h", "i", "e", "v", "e", "d" >>,
      << "a", "d", "m", "i", "n", "i", "s", "t", "e", "r", "e", "d" >>,
      << "a", "n", "a", "l", "y", "z", "e", "d" >>,
      << "a", "r", "c", "h", "i", "t", "e", "c", "t", "e", "d" >>,
      << "b", "u", "i", "l", "t" >>,
      << "c", "o", "l", "l", "a", "b", "o", "r", "a", "t", "e", "d" >>,
      << "c", "o", "n", "d", "u", "c", "t", "e", "d" >>,
      << "c", "o", "o", "r", "d", "i", "n", "a", "t", "e", "d" >>,
      << "c", "r", "e", "a", "t", "e", "d" >>,
      << "d", "e", "l", "i", "v", "e", "r", "e", "d" >>,
      << "d", "e", "s", "i", "g", "n", "e", "d" >>,
      << "d", "e", "v", "e", "l", "o", "p", "e", "d" >>,
      << "d", "i", "r", "e", "c", "t", "e", "d" >>,
      << "d", "r", "o", "v", "e" >>,
      << "e", "n", "g", "i", "n", "e", "e", "r", "e", "d" >>,
      << "e", "s", "t", "a", "b", "l", "i", "s", "h", "e", "d" >>,
      << "e", "x", "e", "c", "u", "t", "e", "d" >>,
      << "e", "x", "p", "a", "n", "d", "e", "d" >>,
      << "g", "e", "n", "e", "r", "a", "t", "e", "d" >>,
      << "i", "m", "p", "l", "e", "m", "e", "n", "t", "e", "d" >>,
      << "i", "m", "p", "r", "o", "v", "e", "d" >>,
      << "i", "n", "c", "r", "e", "a", "s", "e", "d" >>,
      << "i", "n", "i", "t", "i", "a", "t", "e", "d" >>,
      << "l", "a", "u", "n", "c", "h", "e", "d" >>,
      << "l", "e", "d" >>,
      << "m", "a", "n", "a", "g", "e", "d" >>,
      << "o", "p", "t", "i", "m", "i", "z", "e", "d" >>,
      << "o", "r", "c", "h", "e", "s", "t", "r", "a", "t", "e", "d" >>,
      << "o", "r", "g", "a", "n", "i", "z", "e", "d" >>,
      << "p", "e", "r", "f", "o", "r", "m", "e", "d" >>,
      << "p", "i", "o", "n", "e", "e", "r", "e", "d" >>,
      << "p", "l", "a", "n", "n", "e", "d" >>,
      << "p", "r", "o", "d", "u", "c", "e", "d" >>,
      << "p", "r", "o", "g", "r", "a", "m", "m", "e", "d" >>,
      << "r", "e", "d", "u", "c", "e", "d" >>,
      << "r", "e", "e", "n", "g", "i", "n", "e", "e", "r", "e", "d" >>,
      << "r", "e", "s", "o", "l", "v", "e", "d" >>,
      << "s", "p", "e", "a", "r", "h", "e", "a", "d", "e", "d" >>,
      << "s", "t", "r", "e", "a", "m", "l", "i", "n", "e", "d" >>,
      << "t", "r", "a", "n", "s", "f", "o", "r", "m", "e", "d" >>,
      << "m", "a", "i", "n", "t", "a", "i", "n", "e", "d" >>,
      << "a", "u", "t", "o", "m", "a", "t", "e", "d" >>,
      << "d", "e", "p", "l", "o", "y", "e", "d" >>,
      << "i", "n", "t", "e", "g", "r", "a", "t", "e", "d" >>,
      << "m", "i", "g", "r", "a", "t", "e", "d" >>,
      << "s", "c", "a", "l", "e", "d" >>,
      << "t", "e", "s", "t", "e", "d" >>,
      << "v", "a", "l", "i", "d", "a", "t", "e", "d" >>,
      << "m", "o", "n", "i", "t", "o", "r", "e", "d" >>,
      << "d", "o", "c", "u", "m", "e", "n", "t", "e", "d" >>,
      << "t", "r", "a", "i", "n", "e", "d" >>,
      << "s", "u", "p", "p", "o", "r", "t", "e", "d" >>,
      << "e", "n", "h", "a", "n", "c", "e", "d" >> }

RECURSIVE StripPunctuation(_)
\* str.rstrip('.,;:')
StripPunctuation(w) ==
    IF w # << >> /\ w[Len(w)] \in { ".", ",", ";", ":" }
    THEN StripPunctuation(SubSeq(w, 1, Len(w) - 1)) ELSE w

\* _starts_with_action_verb, lines 151-153, on a text that has a word.
starts_with_action_verb(text) ==
    StripPunctuation(LowerText(SplitWords(text)[1])) \in action_verbs

\* One pass of the loop of extract_bullets, lines 59-85, over a line.
ExtractStep(st, line) ==
    LET line_stripped == Strip(line)
        saved == IF st.current_bullet # << >>
                 THEN Append(st.bullets, Strip(st.current_bullet))
                 ELSE st.bullets
    IN  IF line_stripped = << >>
        THEN [ bullets |-> saved, current_bullet |-> << >> ]
        ELSE IF is_bullet_point(line_stripped)
        THEN [ bullets |-> saved,
               current_bullet |-> strip_bullet_marker(line_stripped) ]
        ELSE IF st.current_bullet # << >>
        THEN [ st EXCEPT !.current_bullet = @ \o << " " >> \o line_stripped ]
        ELSE IF Len(SplitWords(line_stripped)) > 3
                  /\ starts_with_action_verb(line_stripped)
        THEN [ st EXCEPT !.current_bullet = line_stripped ]
        ELSE st

RECURSIVE ExtractLoop(_, _)
ExtractLoop(st, lines) ==
    IF lines = << >> THEN st
    ELSE ExtractLoop(ExtractStep(st, Head(lines)), Tail(lines))

\* extract_bullets, lines 55-96.
extract_bullets(text) ==
    LET st == ExtractLoop([ bullets |-> << >>, current_bullet |-> << >> ],
                          SplitLines(text))
        bullets == IF st.current_bullet # << >>
                   THEN Append(st.bullets, Strip(st.current_bullet))
                   ELSE st.bullets
    IN  SelectSeq(bullets, LAMBDA b : Len(SplitWords(b)) >= 3)

\* The artifacts of normalize_job_description, lines 112-118, in order.
artifacts ==
    << << "a", "p", "p", "l", "y", " ", "n", "o", "w" >>,
       << "c", "l", "i", "c", "k", " ", "h", "e", "r", "e" >>,
       << "s", "e", "n", "d", " ", "r", "e", "s", "u", "m", "e", " ", "t", "o" >>,
       << "e", "q", "u", "a", "l", " ", "o", "p", "p", "o", "r", "t", "u", "n", "i", "t", "y", " ", "e", "m", "p", "l", "o", "y", "e", "r" >>,
       << "e", "o", "e" >> >>

RECURSIVE RemoveAll(_, _)
\* re.sub(artifact, '', jd, flags=re.IGNORECASE), line 121: the matches are
\* found from the left and do not overlap.
RemoveAll(t, w) ==
    IF t = << >> THEN << >>
    ELSE IF Len(t) >= Len(w) /\ LiteralAt(t, 1, w)
         THEN RemoveAll(SubSeq(t, Len(w) + 1, Len(t)), w)
    ELSE << Head(t) >> \o RemoveAll(Tail(t), w)

RECURSIVE RemoveArtifacts(_, _)
\* The loop of lines 120-121 from the artifact at index n.
RemoveArtifacts(jd, n) ==
    IF n > Len(artifacts) THEN jd
    ELSE RemoveArtifacts(RemoveAll(jd, artifacts[n]), n + 1)

\* normalize_job_description, lines 108-126.
normalize_job_description(jd) ==
    clean_whitespace(RemoveArtifacts(clean_text(jd), 1))

\* -------------------------------------------------------- ScoringService

ComponentNames ==
    << "keyword_match", "semantic_match", "impact_strength",
       "skills_alignment", "experience_alignment", "format_compliance" >>

ComponentSet == { ComponentNames[i] : i \in 1..Len(ComponentNames) }

\* A weight vector with the first two weights exchanged.
WeightsExchanged ==
    [ keyword_match |-> 25, semantic_match |-> 30, impact_strength |-> 15,
      skills_alignment |-> 10, experience_alignment |-> 10,
      format_compliance |-> 10 ]

\* ScoringService.__init__: self.weights, in percent (0.30 is 30).
ScoringServiceWeights ==
    [ keyword_match |-> 30, semantic_match |-> 25, impact_strength |-> 15,
      skills_alignment |-> 10, experience_alignment |-> 10,
      format_compliance |-> 10 ]

\* sum(self.weights.values()), in percent.
RECURSIVE WeightSum(_, _)
WeightSum(w, i) ==
    IF i = 0 THEN 0 ELSE w[ComponentNames[i]] + WeightSum(w, i - 1)

\* The assert of line 28: abs(sum - 1.0) < 0.001, the sum in percent.
WeightsSumToOne(w) ==
    LET off == WeightSum(w, Len(ComponentNames)) - 100
    IN  10 * off < 1 /\ 10 * off > -1

\* A default of 100 for a missing component.
FillMissingWithFull(comps) ==
    [ c \in ComponentSet |->
        IF c \in DOMAIN comps THEN comps[c] ELSE 100 * Hundredths ]

\* The loop of lines 47-50: a missing component is written into the caller's
\* mapping as 0.0.
FillMissing(comps) ==
    [ c \in ComponentSet |-> IF c \in DOMAIN comps THEN comps[c] ELSE 0 ]

\* A clamp that has lost its ceiling.
ClampWithoutCeiling(score) == Max(0, score)

\* max(0.0, min(100.0, score)), in hundredths.
ClampScore(score) == Max(0, Min(100 * Hundredths, score))

\* contribution = score * weight: hundredths times percent, so the unit is
\* 1/(100 * Hundredths) of a point.
Contribution(w, comps, c) == ClampScore(comps[c]) * w[c]

RECURSIVE ContributionSum(_, _, _)
ContributionSum(w, comps, i) ==
    IF i = 0 THEN 0
    ELSE Contribution(w, comps, ComponentNames[i])
         + ContributionSum(w, comps, i - 1)

\* breakdown[component]: score, weight and contribution, each rounded to two
\* decimals (hundredths).
BreakdownEntry(w, comps, c) ==
    [ score        |-> ClampScore(comps[c]),
      weight       |-> w[c] * Hundredths,
      contribution |-> RoundHalfEven(Contribution(w, comps, c), 100) ]

\* calculate_final_score over a mapping that holds all six components.
calculate_final_score(w, comps) ==
    [ final_score |-> RoundHalfEven(ContributionSum(w, comps, Len(ComponentNames)),
                                    100 * Hundredths),
      breakdown   |-> [ c \in ComponentSet |-> BreakdownEntry(w, comps, c) ] ]

\* get_weights, line 88: a copy of self.weights.
get_weights(w) == [ c \in DOMAIN w |-> w[c] ]

\* One entry of identify_top_improvements, lines 156-168: potential_gain is
\* (100 - score) * (weight / 100), rounded to hundredths; the priority is
\* decided on the gain before rounding.
Improvement(breakdown, c) ==
    LET gain == (100 * Hundredths - breakdown[c].score) * breakdown[c].weight
        unit == 100 * Hundredths
    IN  [ component      |-> c,
          current_score  |-> breakdown[c].score,
          weight         |-> breakdown[c].weight,
          potential_gain |-> RoundHalfEven(gain, unit),
          priority       |-> IF gain > 10 * Hundredths * unit THEN "High"
                             ELSE IF gain > 5 * Hundredths * unit THEN "Medium"
                             ELSE "Low" ]

\* list.sort(key=potential_gain, reverse=True), line 171: stable, so an
\* element goes behind every element whose gain is not smaller.
RECURSIVE InsertByGain(_, _)
InsertByGain(sorted, x) ==
    IF sorted = << >> THEN << x >>
    ELSE IF sorted[Len(sorted)].potential_gain >= x.potential_gain
         THEN Append(sorted, x)
         ELSE Append(InsertByGain(SubSeq(sorted, 1, Len(sorted) - 1), x),
                     sorted[Len(sorted)])

RECURSIVE ImprovementsUpTo(_, _)
\* The improvements of the first n components of the breakdown, sorted.
ImprovementsUpTo(breakdown, n) ==
    IF n = 0 THEN << >>
    ELSE InsertByGain(ImprovementsUpTo(breakdown, n - 1),
                      Improvement(breakdown, ComponentNames[n]))

\* identify_top_improvements, lines 154-173.
identify_top_improvements(breakdown) ==
    ImprovementsUpTo(breakdown, Len(ComponentNames))

\* --------------------------------------------------------- ImpactService

\* A bullet is its text together with what the detectors of ImpactService
\* find in that text: quant (detect_quantification), strong
\* (detect_strong_verb), concise (is_concise), active (is_active_voice), weak
\* (the list detect_weak_patterns returns), and kws, the keywords that occur
\* in the lowercased text.
detect_quantification(b) == b.quant

detect_weak_patterns(b) == b.weak

detect_strong_verb(b) == b.strong

is_concise(b) == b.concise

is_active_voice(b) == b.active

\* The scoring with a penalty that is not floored at 0.
ScoreWithUnflooredPenalty(has_quantification, has_strong_verb, is_conc, is_active, has_weak_verb) ==
    LET s1 == IF has_quantification THEN 40 ELSE 0
        s2 == IF has_strong_verb THEN s1 + 30
              ELSE IF ~has_weak_verb THEN s1 + 10 ELSE s1
        s3 == IF is_conc THEN s2 + 20 ELSE s2
        s4 == IF is_active THEN s3 + 10 ELSE s3
        s5 == IF has_weak_verb THEN s4 - 20 ELSE s4
    IN  Min(s5, 100)

\* score_bullet_impact, lines 274-294.
score_bullet_impact(has_quantification, has_strong_verb, is_conc, is_active, has_weak_verb) ==
    LET s1 == IF has_quantification THEN 40 ELSE 0
        s2 == IF has_strong_verb THEN s1 + 30
              ELSE IF ~has_weak_verb THEN s1 + 10 ELSE s1
        s3 == IF is_conc THEN s2 + 20 ELSE s2
        s4 == IF is_active THEN s3 + 10 ELSE s3
        s5 == IF has_weak_verb THEN Max(0, s4 - 20) ELSE s4
    IN  Min(s5, 100)

\* f"weak phrase: '{p}'"
WeakLabel(p) ==
    CASE p = "helped"          -> "weak phrase: 'helped'"
      [] p = "helped with"     -> "weak phrase: 'helped with'"
      [] p = "responsible for" -> "weak phrase: 'responsible for'"
      [] OTHER                 -> "weak phrase"

\* analyze_bullet_impact, lines 87-138.
analyze_bullet_impact(b) ==
    LET has_quantification == detect_quantification(b)
        weak_patterns      == detect_weak_patterns(b)
        has_strong_verb    == detect_strong_verb(b)
        conc               == is_concise(b)
        active             == is_active_voice(b)
        score == score_bullet_impact(has_quantification, has_strong_verb,
                                     conc, active, weak_patterns # << >>)
        w1 == IF ~has_quantification THEN << "no quantifiable metrics" >>
              ELSE << >>
        g1 == IF ~has_quantification THEN << >> ELSE << "contains metrics" >>
        w2 == w1 \o [ i \in 1..Len(weak_patterns) |-> WeakLabel(weak_patterns[i]) ]
        g3 == IF has_strong_verb THEN g1 \o << "strong action verb" >> ELSE g1
        w3 == IF ~has_strong_verb /\ weak_patterns = << >>
              THEN w2 \o << "no strong action verb" >> ELSE w2
        w4 == IF ~conc THEN w3 \o << "too verbose" >> ELSE w3
        g4 == IF ~conc THEN g3 ELSE g3 \o << "concise" >>
        w5 == IF ~active THEN w4 \o << "passive voice" >> ELSE w4
        g5 == IF ~active THEN g4 ELSE g4 \o << "active voice" >>
    IN  [ text               |-> b.text,
          impact_score       |-> score,
          has_quantification |-> has_quantification,
          weaknesses         |-> w5,
          strengths          |-> g5 ]

RECURSIVE SumImpact(_)
SumImpact(analyzed) ==
    IF analyzed = << >> THEN 0
    ELSE analyzed[1].impact_score + SumImpact(Tail(analyzed))

CountWhere(analyzed, lo, hi) ==
    Cardinality({ i \in 1..Len(analyzed) :
                    /\ analyzed[i].impact_score >= lo
                    /\ analyzed[i].impact_score <= hi })

\* analyze_all_bullets, lines 48-75; average_score is round(average, 2).
analyze_all_bullets(bullets) ==
    IF bullets = << >>
    THEN [ bullets |-> << >>, average_score |-> 0,
           weak_count |-> 0, strong_count |-> 0 ]
    ELSE LET analyzed == [ i \in 1..Len(bullets) |-> analyze_bullet_impact(bullets[i]) ]
         IN  [ bullets       |-> analyzed,
               average_score |-> RoundHalfEven(SumImpact(analyzed) * Hundredths,
                                               Len(bullets)),
               weak_count    |-> CountWhere(analyzed, 0, 49),
               strong_count  |-> CountWhere(analyzed, 70, 100) ]

\* An insertion that puts an element before those of equal key.
RECURSIVE InsertBeforeEqual(_, _)
InsertBeforeEqual(sorted, x) ==
    IF sorted = << >> THEN << x >>
    ELSE IF sorted[Len(sorted)].impact_score < x.impact_score
         THEN Append(sorted, x)
         ELSE Append(InsertBeforeEqual(SubSeq(sorted, 1, Len(sorted) - 1), x),
                     sorted[Len(sorted)])

\* sorted(..., key=impact_score) is stable: an element goes behind every
\* element whose key is not greater.
RECURSIVE InsertByScore(_, _)
InsertByScore(sorted, x) ==
    IF sorted = << >> THEN << x >>
    ELSE IF sorted[Len(sorted)].impact_score <= x.impact_score
         THEN Append(sorted, x)
         ELSE Append(InsertByScore(SubSeq(sorted, 1, Len(sorted) - 1), x),
                     sorted[Len(sorted)])

RECURSIVE SortByScore(_)
SortByScore(analyzed) ==
    IF analyzed = << >> THEN << >>
    ELSE InsertByScore(SortByScore(SubSeq(analyzed, 1, Len(analyzed) - 1)),
                       analyzed[Len(analyzed)])

\* get_weakest_bullets, lines 308-310.
get_weakest_bullets(analyzed_bullets, count) ==
    Take(SortByScore(analyzed_bullets), count)

\* -------------------------------------------------------- RewriteService

\* str.lower() on the keywords of the model.
Lower(k) ==
    CASE k = "Python"     -> "python"
      [] k = "Docker"     -> "docker"
      [] k = "Kubernetes" -> "kubernetes"
      [] OTHER            -> k

\* _identify_added_keywords: the keywords, in list order, that occur in the
\* lowercased rewritten text and not in the lowercased original.  A text is
\* represented by the set of lowercased keywords it contains.
identify_added_keywords(original_kws, rewritten_kws, keywords) ==
    SelectSeq(keywords, LAMBDA k : /\ Lower(k) \in rewritten_kws
                                   /\ Lower(k) \notin original_kws)

\* The dictionary rewrite_bullets appends for one rewritten bullet,
\* lines 66-80.
RewriteEntry(bullet_data, original_kws, rewritten, keywords_to_use) ==
    [ original          |-> bullet_data.text,
      rewritten         |-> rewritten.text,
      improvement_score |-> Max(0, REWRITE_SCORE - bullet_data.impact_score),
      keywords_added    |-> identify_added_keywords(original_kws, rewritten.kws,
                                                    keywords_to_use) ]

\* ------------------------------------------------------ ProjectionService

\* current_breakdown.get(c, {}).get('score', 0)
BreakdownScore(breakdown, c) ==
    IF c \in DOMAIN breakdown THEN breakdown[c].score ELSE 0

\* rewrite_map = {r['original']: 95 for r in rewrites}: its keys.
RewriteMapKeys(rewrites) == { rewrites[i].original : i \in 1..Len(rewrites) }

\* A total to which only the rewritten bullets contribute.
RECURSIVE TotalOfRewrittenOnly(_, _)
TotalOfRewrittenOnly(original_bullets, keys) ==
    IF original_bullets = << >> THEN 0
    ELSE (IF original_bullets[1].text \in keys THEN REWRITE_SCORE ELSE 0)
         + TotalOfRewrittenOnly(Tail(original_bullets), keys)

RECURSIVE ProjectedTotal(_, _)
ProjectedTotal(original_bullets, keys) ==
    IF original_bullets = << >> THEN 0
    ELSE (IF original_bullets[1].text \in keys THEN REWRITE_SCORE
          ELSE original_bullets[1].impact_score)
         + ProjectedTotal(Tail(original_bullets), keys)

\* An average that takes no notice of the rewrites.
NewImpactWithoutRewrites(original_bullets, rewrites) ==
    IF original_bullets = << >> THEN 0
    ELSE RoundHalfEven(ProjectedTotal(original_bullets, { }) * Hundredths,
                       Len(original_bullets))

\* _calculate_new_impact_score, lines 109-131, in hundredths.
calculate_new_impact_score(original_bullets, rewrites) ==
    IF original_bullets = << >> THEN 0
    ELSE RoundHalfEven(ProjectedTotal(original_bullets, RewriteMapKeys(rewrites))
                         * Hundredths,
                       Len(original_bullets))

\* The added keywords as the rewrites spell them.
AddedKeywordsAsWritten(rewrites) ==
    UNION { { rewrites[i].keywords_added[j] :
                j \in 1..Len(rewrites[i].keywords_added) } :
            i \in 1..Len(rewrites) }

\* added_keywords of lines 156-159.
AddedKeywords(rewrites) ==
    UNION { { Lower(rewrites[i].keywords_added[j]) :
                j \in 1..Len(rewrites[i].keywords_added) } :
            i \in 1..Len(rewrites) }

\* A coverage that counts every missing keyword as added.
NewCoverageFromMissing(current_coverage, rewrites, missing_keywords, total_keywords) ==
    IF total_keywords = 0 THEN current_coverage
    ELSE LET additional_matches == Len(missing_keywords)
             unit == 100 * Hundredths
         IN  RoundHalfEven(Min(current_coverage * total_keywords
                                 + additional_matches * unit,
                               total_keywords * unit),
                           total_keywords)

\* _calculate_new_keyword_coverage, lines 152-173, in hundredths:
\* round(min(cov/100 * total + added, total) / total * 100, 2).
calculate_new_keyword_coverage(current_coverage, rewrites, missing_keywords, total_keywords) ==
    IF total_keywords = 0 THEN current_coverage
    ELSE LET additional_matches == Cardinality(AddedKeywords(rewrites))
             unit == 100 * Hundredths
         IN  RoundHalfEven(Min(current_coverage * total_keywords
                                 + additional_matches * unit,
                               total_keywords * unit),
                           total_keywords)

\* A projection that keeps the current keyword score.
ComponentsWithImpactOnly(current_breakdown, new_impact_score, new_keyword_score) ==
    [ c \in ComponentSet |->
        IF c = "impact_strength" THEN new_impact_score
        ELSE IF c \in DOMAIN current_breakdown
             THEN current_breakdown[c].score ELSE 0 ]

\* projected_components of lines 52-64.
ProjectedComponents(current_breakdown, new_impact_score, new_keyword_score) ==
    [ c \in ComponentSet |->
        IF c = "impact_strength" THEN new_impact_score
        ELSE IF c = "keyword_match" THEN new_keyword_score
        ELSE BreakdownScore(current_breakdown, c) ]

\* A projection whose percentage is taken of the projected score.
ProjectionWithGainOfProjected(current_score, current_breakdown, rewrites, original_bullets, missing_keywords, total_keywords) ==
    LET new_impact_score ==
            calculate_new_impact_score(original_bullets, rewrites)
        new_keyword_score ==
            calculate_new_keyword_coverage(
                BreakdownScore(current_breakdown, "keyword_match"),
                rewrites, missing_keywords, total_keywords)
        projected_score ==
            calculate_final_score(ScoringServiceWeights,
                ProjectedComponents(current_breakdown, new_impact_score,
                                    new_keyword_score)).final_score
        improvement == projected_score - current_score
    IN  [ current_score   |-> current_score,
          projected_score |-> projected_score,
          improvement     |-> improvement,
          percentage_gain |-> IF projected_score > 0
                              THEN RoundHalfEven(improvement * 100 * Hundredths,
                                                 projected_score)
                              ELSE 0,
          breakdown |->
            [ impact_strength  |-> new_impact_score
                  - BreakdownScore(current_breakdown, "impact_strength"),
              keyword_coverage |-> new_keyword_score
                  - BreakdownScore(current_breakdown, "keyword_match") ] ]

\* project_improved_score, lines 39-92.  Line 68 constructs a ScoringService
\* of its own, whose weights are those of ScoringService.__init__.
project_improved_score(current_score, current_breakdown, rewrites, original_bullets, missing_keywords, total_keywords) ==
    LET new_impact_score ==
            calculate_new_impact_score(original_bullets, rewrites)
        new_keyword_score ==
            calculate_new_keyword_coverage(
                BreakdownScore(current_breakdown, "keyword_match"),
                rewrites, missing_keywords, total_keywords)
        projected_components ==
            ProjectedComponents(current_breakdown, new_impact_score,
                                new_keyword_score)
        projected_result ==
            calculate_final_score(ScoringServiceWeights, projected_components)
        projected_score == projected_result.final_score
        improvement == projected_score - current_score
    IN  [ current_score   |-> current_score,
          projected_score |-> projected_score,
          improvement     |-> improvement,
          percentage_gain |-> IF current_score > 0
                              THEN RoundHalfEven(improvement * 100 * Hundredths,
                                                 current_score)
                              ELSE 0,
          breakdown |->
            [ impact_strength  |-> new_impact_score
                  - BreakdownScore(current_breakdown, "impact_strength"),
              keyword_coverage |-> new_keyword_score
                  - BreakdownScore(current_breakdown, "keyword_match") ] ]

\* -------------------------------------------------------- KeywordService

\* A keyword of the job description is its term together with what the
\* matchers find for it in the resume: match ("exact", "partial" or
\* "missing", the bucket match_keywords puts it in), tech (categorize_keywords
\* lists it under technical_skills) and sub (the term is a substring of the
\* lowercased resume).
Terms(kws) == [ i \in 1..Len(kws) |-> kws[i].kw ]

Bucket(kws, m) == Terms(SelectSeq(kws, LAMBDA k : k.match = m))

\* A coverage score without its ceiling.
CoverageWithoutCeiling(matched_halves, total_count) ==
    IF total_count = 0 THEN 0
    ELSE RoundHalfEven(matched_halves * 100 * Hundredths, 2 * total_count)

\* calculate_coverage_score, lines 281-284; matched_halves counts half
\* keywords (a partial match is one half), the result is in hundredths.
calculate_coverage_score(matched_halves, total_count) ==
    IF total_count = 0 THEN 0
    ELSE RoundHalfEven(Min(matched_halves * 100 * Hundredths,
                           2 * total_count * 100 * Hundredths),
                       2 * total_count)

\* calculate_skills_match_score, lines 297-306.
calculate_skills_match_score(kws) ==
    LET technical == SelectSeq(kws, LAMBDA k : k.tech)
        matched == Len(SelectSeq(technical, LAMBDA k : k.sub))
    IN  IF technical = << >> THEN 50 * Hundredths
        ELSE RoundHalfEven(Min(matched * 100 * Hundredths,
                               Len(technical) * 100 * Hundredths),
                           Len(technical))

\* analyze_keywords, lines 67-90, over the keywords extract_keywords yields.
analyze_keywords(jd_keywords) ==
    [ exact_matches      |-> Bucket(jd_keywords, "exact"),
      partial_matches    |-> Bucket(jd_keywords, "partial"),
      missing_keywords   |-> Bucket(jd_keywords, "missing"),
      coverage_score     |->
          calculate_coverage_score(2 * Len(Bucket(jd_keywords, "exact"))
                                     + Len(Bucket(jd_keywords, "partial")),
                                   Len(jd_keywords)),
      skills_match_score |-> calculate_skills_match_score(jd_keywords) ]

\* --------------------------------------------------------- ParserService

\* format_compliance_score, lines 211-237, in hundredths: 15 for an email,
\* 15 for a phone number, 15 for each section keyword found, 25 for a bullet
\* marker.
format_compliance_score(content) ==
    Min(( (IF content.email THEN 15 ELSE 0) + (IF content.phone THEN 15 ELSE 0)
          + 15 * content.sections + (IF content.marker THEN 25 ELSE 0) )
          * Hundredths,
        100 * Hundredths)

\* --------------------------------------------------------- exceptions

NoException == [ kind |-> "none", status |-> 0 ]

HTTPException(status) == [ kind |-> "http", status |-> status ]

\* Any exception that is not an HTTPException.
InternalError == [ kind |-> "error", status |-> 0 ]

\* A length check without the upper limit.
LengthAtLeast(length, min_length, max_length) ==
    IF length < min_length THEN HTTPException(400) ELSE NoException

\* validate_text_length, lines 102-115, on the length of the stripped text.
validate_text_length(length, min_length, max_length) ==
    IF length < min_length THEN HTTPException(400)
    ELSE IF length > max_length THEN HTTPException(400)
    ELSE NoException

\* parse_resume, parse_file and parse_text, lines 45-50, 66-76, 92-131 and
\* 146-154, by the kind of resume the request carries.
parse_resume(resume) ==
    CASE resume = "none"             -> HTTPException(400)
      [] resume = "empty_text"       -> HTTPException(400)
      [] resume = "blank_text"       -> HTTPException(400)
      [] resume = "file_invalid"     -> HTTPException(400)
      [] resume = "file_pdf_broken"  -> HTTPException(500)
      [] resume = "file_undecodable" -> InternalError
      [] OTHER                       -> NoException

\* A handler that lets an exception other than an HTTPException pass as a
\* success.
StatusOfHttpOnly(exc) == IF exc.kind = "http" THEN exc.status ELSE 200

\* The except clauses of analyze_resume, lines 226-233: an HTTPException is
\* raised again as it is, any other exception becomes a 500.
ExceptionStatus(exc) == IF exc.kind = "http" THEN exc.status ELSE 500

\* ------------------------------------------------------ EmbeddingService

RECURSIVE Dot(_, _)
Dot(v1, v2) ==
    IF v1 = << >> THEN 0 ELSE v1[1] * v2[1] + Dot(Tail(v1), Tail(v2))

\* np.linalg.norm on the vectors of the model, whose norms are integers.
Norm(v) == CHOOSE r \in 0..Dot(v, v) : r * r = Dot(v, v)

\* Lines 43-49 of compute_semantic_similarity with cosine_similarity, lines
\* 103-115: the score in hundredths, or an exception when np.dot rejects the
\* shapes.
SimilarityScore(v1, v2) ==
    IF Len(v1) # Len(v2) THEN [ exc |-> InternalError, score |-> 0 ]
    ELSE IF Norm(v1) = 0 \/ Norm(v2) = 0
         THEN [ exc |-> NoException, score |-> 50 * Hundredths ]
         ELSE [ exc |-> NoException,
                score |-> RoundHalfEven((Dot(v1, v2) + Norm(v1) * Norm(v2))
                                          * 100 * Hundredths,
                                        2 * Norm(v1) * Norm(v2)) ]

\* The except clause of compute_semantic_similarity, lines 51-54.
SemanticFallback == 50 * Hundredths

\* A retry policy that allows one attempt more.
RetryOnceMore(attempts_made) ==
    IF attempts_made > MAX_ATTEMPTS THEN "raise" ELSE "retry"

\* tenacity's stop_after_attempt(3) after a failed attempt: try again, or
\* give up and raise RetryError to the caller.
AfterFailedAttempt(attempts_made) ==
    IF attempts_made >= MAX_ATTEMPTS THEN "raise" ELSE "retry"

\* ------------------------------------------------------------------ inputs

\* Terms a job description yields, with the category test of
\* categorize_keywords for technical_skills.
Vocabulary == << "python", "docker", "kubernetes" >>

\* The characters of a term.
Chars(term) ==
    CASE term = "python"     -> << "p", "y", "t", "h", "o", "n" >>
      [] term = "docker"     -> << "d", "o", "c", "k", "e", "r" >>
      [] term = "kubernetes" -> << "k", "u", "b", "e", "r", "n", "e", "t", "e", "s" >>

IsTechnicalSkill(term) == MatchesAny(LowerText(Chars(term)), technical_skills)

\* Resume texts.  whole: the terms that occur as whole words; lemma: the
\* terms whose simplified lemma is a substring; substr: the terms that are a
\* substring; bullets: what extract_bullets(clean_text(text)) yields, at most
\* one bullet since clean_text leaves no newline.
BulletHelped ==
    [ text |-> "Helped with various tasks", quant |-> FALSE, strong |-> FALSE,
      concise |-> TRUE, active |-> TRUE, weak |-> << "helped", "helped with" >> ]

BulletIncreased ==
    [ text |-> "Increased sales by 25% using python", quant |-> TRUE,
      strong |-> TRUE, concise |-> TRUE, active |-> TRUE, weak |-> << >> ]

BulletManaged ==
    [ text |-> "Managed the daily release meetings", quant |-> FALSE,
      strong |-> TRUE, concise |-> TRUE, active |-> TRUE, weak |-> << >> ]

\* The bullet that is left of two bulleted lines once clean_text has joined
\* them.
BulletJoined ==
    [ text |-> "Helped with various tasks - Increased sales by 25% using python",
      quant |-> TRUE, strong |-> TRUE, concise |-> TRUE, active |-> TRUE,
      weak |-> << "helped", "helped with" >> ]

CharsSenior ==
    << "S", "e", "n", "i", "o", "r", " ", "e", "n", "g", "i", "n", "e", "e",
       "r", ",", " ", "p", "y", "t", "h", "o", "n", " ", "a", "n", "d", " ",
       "d", "o", "c", "k", "e", "r", "i", "z", "e", "d", " ", "s", "e", "r",
       "v", "i", "c", "e", "s" >>

CharsHelped ==
    << "H", "e", "l", "p", "e", "d", " ", "w", "i", "t", "h", " ", "v", "a",
       "r", "i", "o", "u", "s", " ", "t", "a", "s", "k", "s" >>

CharsIncreased ==
    << "I", "n", "c", "r", "e", "a", "s", "e", "d", " ", "s", "a", "l", "e",
       "s", " ", "b", "y", " ", "2", "5", "%", " ", "u", "s", "i", "n", "g",
       " ", "p", "y", "t", "h", "o", "n" >>

CharsJoined ==
    << "H", "e", "l", "p", "e", "d", " ", "w", "i", "t", "h", " ", "v", "a",
       "r", "i", "o", "u", "s", " ", "t", "a", "s", "k", "s", " ", "-", " ",
       "I", "n", "c", "r", "e", "a", "s", "e", "d", " ", "s", "a", "l", "e",
       "s", " ", "b", "y", " ", "2", "5", "%", " ", "u", "s", "i", "n", "g",
       " ", "p", "y", "t", "h", "o", "n" >>

\* The resume of two bulleted lines, as parse_resume returns it.
CharsTwoLines ==
    << "-", " " >> \o CharsHelped \o << "\n", "-", " " >> \o CharsIncreased

\* The detector outcomes of an extracted bullet.
BulletOf(chars) ==
    CASE chars = CharsHelped    -> BulletHelped
      [] chars = CharsIncreased -> BulletIncreased
      [] chars = CharsJoined    -> BulletJoined

\* The characters of a resume text.
ResumeChars(text) ==
    CASE text = "Senior engineer, python and dockerized services" -> CharsSenior
      [] text = "- Helped with various tasks" -> << "-", " " >> \o CharsHelped
      [] text = "Increased sales by 25% using python" -> CharsIncreased
      [] text = "- Helped with various tasks\n- Increased sales by 25% using python"
           -> CharsTwoLines
      [] OTHER -> << >>

ResumeContents ==
    { [ text |-> "Senior engineer, python and dockerized services",
        whole |-> { "python" }, lemma |-> { "python", "docker" },
        substr |-> { "python", "docker" },
        email |-> FALSE, phone |-> FALSE, sections |-> 0, marker |-> FALSE ],
      [ text |-> "- Helped with various tasks",
        whole |-> { }, lemma |-> { }, substr |-> { },
        email |-> TRUE, phone |-> TRUE, sections |-> 3, marker |-> TRUE ],
      [ text |-> "Increased sales by 25% using python",
        whole |-> { "python" }, lemma |-> { "python" }, substr |-> { "python" },
        email |-> TRUE, phone |-> FALSE, sections |-> 2, marker |-> FALSE ],
      [ text |-> "- Helped with various tasks\n- Increased sales by 25% using python",
        whole |-> { "python" }, lemma |-> { "python" }, substr |-> { "python" },
        email |-> FALSE, phone |-> FALSE, sections |-> 1, marker |-> TRUE ] }

NoContent ==
    [ text |-> "", whole |-> { }, lemma |-> { }, substr |-> { },
      email |-> FALSE, phone |-> FALSE, sections |-> 0, marker |-> FALSE ]

\* The keywords, as lowercased substrings, of the bullet texts and of the
\* texts the rewrite collaborator returns.
TextKeywords(text) ==
    CASE text = "Increased sales by 25% using python"      -> { "python" }
      [] text = "Helped with various tasks - Increased sales by 25% using python"
           -> { "python" }
      [] text = "Deployed 5 docker services on kubernetes" -> { "docker", "kubernetes" }
      [] OTHER                                             -> { }

\* What the generative collaborator may answer, after _clean_rewrite.
LlmOutputs ==
    { "Delivered 10+ tasks on time", "Deployed 5 docker services on kubernetes" }

\* What the embedding collaborator may answer.
Embeddings == { << 3, 4 >>, << -4, -3 >>, << 0, 0 >>, << 1 >> }

\* Lists of distinct terms of the vocabulary, at most n long.
TermLists(n) ==
    { s \in UNION { [ 1..k -> { Vocabulary[i] : i \in 1..Len(Vocabulary) } ] :
                    k \in 0..Min(n, Len(Vocabulary)) } :
        \A i, j \in 1..Len(s) : i # j => s[i] # s[j] }

\* match_keywords and the category and substring tests on one term.
KeywordFinding(content, term) ==
    [ kw    |-> term,
      match |-> IF term \in content.whole THEN "exact"
                ELSE IF term \in content.lemma THEN "partial" ELSE "missing",
      tech  |-> IsTechnicalSkill(term),
      sub   |-> term \in content.substr ]

KeywordFindings(content, terms) ==
    [ i \in 1..Len(terms) |-> KeywordFinding(content, terms[i]) ]

\* Stripped lengths of the job description, around both limits.
JdLengths ==
    { MIN_JD_LENGTH - 1, MIN_JD_LENGTH, MAX_JD_LENGTH, MAX_JD_LENGTH + 1 }

ResumeKinds ==
    { "none", "empty_text", "blank_text", "text", "file", "file_invalid",
      "file_pdf_broken", "file_undecodable" }

\* The requests of the model.  A resume that cannot be parsed has no content;
\* an uploaded file is tried with one content, pasted text with all of them;
\* the shortest job description yields at most one keyword.
Requests ==
    { r \in [ jd_len : JdLengths, resume : ResumeKinds,
              content : ResumeContents \cup { NoContent },
              jd_terms : TermLists(MaxKeywords) ] :
        /\ (r.content = NoContent) <=> (parse_resume(r.resume) # NoException)
        /\ r.resume = "file" => r.content.text = "Increased sales by 25% using python"
        /\ r.jd_len <= MIN_JD_LENGTH => Len(r.jd_terms) <= 1 }

\* ------------------------------------------------------------------- state

VARIABLES
    weights,          \* scoring_service.weights
    request,          \* the request analyze_resume serves
    pc,               \* where analyze_resume stands
    http_status,      \* 0 while it runs, then 200, 400 or 500
    response,         \* the AnalysisResponse it returned
    steps,            \* how often each step has run
    raised,           \* the steps that raised a non-HTTP exception
    resume_bullets,   \* extract_bullets(clean_resume)
    task,             \* state of the four gathered tasks
    result,           \* what each task returned
    emb,              \* compute_semantic_similarity in progress
    components,       \* the mapping given to calculate_final_score
    score_result,     \* what calculate_final_score returned
    weak_bullets,     \* the argument of rewrite_bullets
    missing_keywords, \* the argument of rewrite_bullets
    rw,               \* rewrite_bullets in progress
    rewrites,         \* the list rewrite_bullets builds
    projection,       \* what project_improved_score returned
    total_keywords,   \* the total_keywords argument of project_improved_score
    gap,              \* analyze_semantic_gaps in progress
    args,             \* the arguments of a function called on its own
    retval            \* what that function returned

vars ==
    << weights, request, pc, http_status, response, steps, raised,
       resume_bullets, task, result, emb, components, score_result,
       weak_bullets, missing_keywords, rw, rewrites, projection,
       total_keywords, gap, args, retval >>

StepNames ==
    { "validate", "parse", "preprocess", "keyword", "embedding", "impact",
      "format", "score", "weakest", "rewrite", "project", "respond", "gap" }

TaskNames == { "keyword", "semantic", "impact", "format" }

NoResponse == [ none |-> TRUE ]

NoProjection == [ none |-> TRUE ]

NoComponents == [ c \in { } |-> 0 ]

NoScore == [ final_score |-> -1, breakdown |-> NoComponents ]

\* What a task's result slot holds until the task has returned.
PendingResult ==
    [ keyword  |-> [ exact_matches |-> << >>, partial_matches |-> << >>,
                     missing_keywords |-> << >>, coverage_score |-> 0,
                     skills_match_score |-> 0 ],
      semantic |-> 0,
      impact   |-> [ bullets |-> << >>, average_score |-> 0,
                     weak_count |-> 0, strong_count |-> 0 ],
      format   |-> 0 ]

\* A retrying call: cur holds the outcomes of the attempts of the invocation
\* in progress, log the outcomes of the invocations that are over.
EmbIdle == [ call |-> 1, cur |-> << >>, vec1 |-> << >>, log |-> << >> ]

RwIdle == [ st |-> "idle", i |-> 1, cur |-> << >>, log |-> << >> ]

GapIdle ==
    [ st |-> "idle", cur |-> << >>, log |-> << >>, gaps |-> << >>,
      explanation |-> "" ]

Ran(step) == [ steps EXCEPT ![step] = @ + 1 ]

\* The state before anything has run, in parts.
FreshHandler ==
    /\ weights = ScoringServiceWeights
    /\ http_status = 0
    /\ response = NoResponse
    /\ steps = [ s \in StepNames |-> 0 ]
    /\ raised = { }

FreshTasks ==
    /\ task = [ t \in TaskNames |-> "idle" ]
    /\ emb = EmbIdle

FreshResults ==
    /\ resume_bullets = << >>
    /\ result = PendingResult

FreshScore ==
    /\ components = NoComponents
    /\ score_result = NoScore

FreshRewrite ==
    /\ weak_bullets = << >>
    /\ missing_keywords = << >>
    /\ rw = RwIdle
    /\ rewrites = << >>

FreshProjection ==
    /\ projection = NoProjection
    /\ total_keywords = 0

FreshGap == gap = GapIdle

\* No function has been called on its own.
NoCall == [ none |-> TRUE ]

FreshCall == args = NoCall /\ retval = NoCall

Init ==
    /\ FreshHandler /\ FreshTasks /\ FreshResults /\ FreshScore
    /\ FreshRewrite /\ FreshProjection /\ FreshGap /\ FreshCall
    /\ request \in Requests
    /\ pc = "validate"

\* --------------------------------------------------------- analyze_resume

\* An exception leaves analyze_resume through its except clauses.
Abort(exc, step) ==
    /\ pc' = "done"
    /\ http_status' = ExceptionStatus(exc)
    /\ raised' = IF exc.kind = "error" THEN raised \cup { step } ELSE raised

\* Lines 109-114.
Validate ==
    /\ pc = "validate"
    /\ steps' = Ran("validate")
    /\ LET exc == validate_text_length(request.jd_len, MIN_JD_LENGTH, MAX_JD_LENGTH)
       IN  IF exc # NoException
           THEN Abort(exc, "validate")
           ELSE pc' = "parse" /\ UNCHANGED << http_status, raised >>
    /\ UNCHANGED << weights, request, response, resume_bullets, task, result,
                    emb, components, score_result, weak_bullets,
                    missing_keywords, rw, rewrites, projection,
                    total_keywords, gap,
                    args, retval >>

\* Step 1, lines 118-121.
Parse ==
    /\ pc = "parse"
    /\ steps' = Ran("parse")
    /\ LET exc == parse_resume(request.resume)
       IN  IF exc # NoException
           THEN Abort(exc, "parse")
           ELSE pc' = "preprocess" /\ UNCHANGED << http_status, raised >>
    /\ UNCHANGED << weights, request, response, resume_bullets, task, result,
                    emb, components, score_result, weak_bullets,
                    missing_keywords, rw, rewrites, projection,
                    total_keywords, gap,
                    args, retval >>

\* clean_resume = clean_text(resume_content) and
\* resume_bullets = extract_bullets(clean_resume), lines 125 and 127, each
\* bullet with what the detectors find in it.
BulletsOfContent ==
    [ content \in ResumeContents \cup { NoContent } |->
        LET cleaned == extract_bullets(clean_text(ResumeChars(content.text)))
        IN  [ i \in 1..Len(cleaned) |-> BulletOf(cleaned[i]) ] ]

CleanedBullets(content) == BulletsOfContent[content]

\* Step 2 and the start of step 3, lines 125-148: the texts are cleaned, the
\* four analyses are handed to asyncio.gather and analyze_resume waits.
Preprocess ==
    /\ pc = "preprocess"
    /\ steps' = Ran("preprocess")
    /\ \E fault \in BOOLEAN :
         IF fault
         THEN /\ Abort(InternalError, "preprocess")
              /\ UNCHANGED << resume_bullets, task >>
         ELSE /\ resume_bullets' = CleanedBullets(request.content)
              /\ task' = [ t \in TaskNames |-> "running" ]
              /\ pc' = "gather"
              /\ UNCHANGED << http_status, raised >>
    /\ UNCHANGED << weights, request, response, result, emb, components,
                    score_result, weak_bullets, missing_keywords, rw, rewrites,
                    projection, total_keywords, gap,
                    args, retval >>

\* keyword_service.analyze_keywords(clean_jd, clean_resume, TOP_KEYWORDS_COUNT).
KeywordTask ==
    /\ task.keyword = "running"
    /\ steps' = Ran("keyword")
    /\ \E fault \in BOOLEAN :
         IF fault
         THEN /\ task' = [ task EXCEPT !.keyword = "failed" ]
              /\ raised' = raised \cup { "keyword" }
              /\ UNCHANGED result
         ELSE /\ task' = [ task EXCEPT !.keyword = "done" ]
              /\ result' = [ result EXCEPT !.keyword =
                    analyze_keywords(Take(KeywordFindings(request.content,
                                                          request.jd_terms),
                                          TOP_KEYWORDS_COUNT)) ]
              /\ UNCHANGED raised
    /\ UNCHANGED << weights, request, pc, http_status, response,
                    resume_bullets, emb, components, score_result,
                    weak_bullets, missing_keywords, rw, rewrites, projection,
                    total_keywords, gap,
                    args, retval >>

\* impact_service.analyze_all_bullets(resume_bullets).
ImpactTask ==
    /\ task.impact = "running"
    /\ steps' = Ran("impact")
    /\ \E fault \in BOOLEAN :
         IF fault
         THEN /\ task' = [ task EXCEPT !.impact = "failed" ]
              /\ raised' = raised \cup { "impact" }
              /\ UNCHANGED result
         ELSE /\ task' = [ task EXCEPT !.impact = "done" ]
              /\ result' = [ result EXCEPT !.impact =
                                analyze_all_bullets(resume_bullets) ]
              /\ UNCHANGED raised
    /\ UNCHANGED << weights, request, pc, http_status, response,
                    resume_bullets, emb, components, score_result,
                    weak_bullets, missing_keywords, rw, rewrites, projection,
                    total_keywords, gap,
                    args, retval >>

\* asyncio.to_thread(parser_service.format_compliance_score, resume_content).
FormatTask ==
    /\ task.format = "running"
    /\ steps' = Ran("format")
    /\ \E fault \in BOOLEAN :
         IF fault
         THEN /\ task' = [ task EXCEPT !.format = "failed" ]
              /\ raised' = raised \cup { "format" }
              /\ UNCHANGED result
         ELSE /\ task' = [ task EXCEPT !.format = "done" ]
              /\ result' = [ result EXCEPT !.format =
                                format_compliance_score(request.content) ]
              /\ UNCHANGED raised
    /\ UNCHANGED << weights, request, pc, http_status, response,
                    resume_bullets, emb, components, score_result,
                    weak_bullets, missing_keywords, rw, rewrites, projection,
                    total_keywords, gap,
                    args, retval >>

\* A coroutine that hands the exception of its try block on.
SimilarityWithoutFallback(exc, score) ==
    [ st    |-> IF exc = NoException THEN "done" ELSE "failed",
      value |-> score ]

\* compute_semantic_similarity, lines 37-54: what the coroutine does with
\* the outcome of its try block.  Every Exception, tenacity's RetryError
\* included, is caught and answered with the neutral score.
compute_semantic_similarity(exc, score) ==
    [ st    |-> "done",
      value |-> IF exc = NoException THEN score ELSE SemanticFallback ]

\* One attempt of get_embedding inside compute_semantic_similarity: the
\* first invocation embeds the resume, the second the job description.
EmbedAttempt ==
    /\ task.semantic = "running"
    /\ steps' = Ran("embedding")
    /\ \E ok \in BOOLEAN, v \in Embeddings :
         LET outs == Append(emb.cur, ok)
             over == [ call |-> emb.call, cur |-> << >>, vec1 |-> << >>,
                       log |-> Append(emb.log, outs) ]
             sim  == IF ok THEN SimilarityScore(emb.vec1, v)
                     ELSE [ exc |-> InternalError, score |-> 0 ]
             ret  == compute_semantic_similarity(sim.exc, sim.score)
         IN  IF ok /\ emb.call = 1
             THEN /\ emb' = [ over EXCEPT !.call = 2, !.vec1 = v ]
                  /\ UNCHANGED << task, result, raised >>
             ELSE IF ~ok /\ AfterFailedAttempt(Len(outs)) = "retry"
             THEN /\ emb' = [ emb EXCEPT !.cur = outs ]
                  /\ UNCHANGED << task, result, raised >>
             ELSE /\ emb' = over
                  /\ task' = [ task EXCEPT !.semantic = ret.st ]
                  /\ result' = [ result EXCEPT !.semantic = ret.value ]
                  /\ raised' = IF ret.st = "failed"
                               THEN raised \cup { "embedding" } ELSE raised
    /\ UNCHANGED << weights, request, pc, http_status, response,
                    resume_bullets, components, score_result, weak_bullets,
                    missing_keywords, rw, rewrites, projection,
                    total_keywords, gap,
                    args, retval >>

\* A join that does not wait for the format score.
GatherWithoutFormat(t) == \A n \in TaskNames \ { "format" } : t[n] = "done"

\* await asyncio.gather(...), lines 143-148: the four results are handed
\* over once every task has returned.
GatherReady(t) == \A n \in TaskNames : t[n] = "done"

\* gather passes the first exception of a task on to analyze_resume.
GatherRaise ==
    /\ pc = "gather"
    /\ \E n \in TaskNames : task[n] = "failed"
    /\ Abort(InternalError, "gather")
    /\ UNCHANGED << weights, request, response, steps, resume_bullets, task,
                    result, emb, components, score_result, weak_bullets,
                    missing_keywords, rw, rewrites, projection,
                    total_keywords, gap,
                    args, retval >>

\* Components whose experience_alignment is a neutral score of its own.
ComponentsWithOwnExperience(res) ==
    [ keyword_match        |-> res.keyword.coverage_score,
      semantic_match       |-> res.semantic,
      impact_strength      |-> res.impact.average_score,
      skills_alignment     |-> res.keyword.skills_match_score,
      experience_alignment |-> SemanticFallback,
      format_compliance    |-> res.format ]

\* The mapping of lines 155-162.
BuildComponents(res) ==
    [ keyword_match        |-> res.keyword.coverage_score,
      semantic_match       |-> res.semantic,
      impact_strength      |-> res.impact.average_score,
      skills_alignment     |-> res.keyword.skills_match_score,
      experience_alignment |-> res.semantic,
      format_compliance    |-> res.format ]

\* Step 4, lines 155-164.
Score ==
    /\ pc = "gather"
    /\ GatherReady(task)
    /\ steps' = Ran("score")
    /\ \E fault \in BOOLEAN :
         IF fault
         THEN /\ Abort(InternalError, "score")
              /\ UNCHANGED << components, score_result >>
         ELSE /\ components' = FillMissing(BuildComponents(result))
              /\ score_result' = calculate_final_score(weights, components')
              /\ pc' = "weakest"
              /\ UNCHANGED << http_status, raised >>
    /\ UNCHANGED << weights, request, response, resume_bullets, task, result,
                    emb, weak_bullets, missing_keywords, rw, rewrites,
                    projection, total_keywords, gap,
                    args, retval >>

\* rewrite_bullets up to its loop, lines 43-51.
StartRewrite(bullets) ==
    [ st  |-> IF Take(bullets, MAX_BULLETS_TO_REWRITE) = << >>
              THEN "returned" ELSE "running",
      i   |-> 1,
      cur |-> << >>,
      log |-> << >> ]

\* Step 5 and the call of step 6, lines 168-179.
Weakest ==
    /\ pc = "weakest"
    /\ steps' = Ran("weakest")
    /\ \E fault \in BOOLEAN :
         IF fault
         THEN /\ Abort(InternalError, "weakest")
              /\ UNCHANGED << weak_bullets, missing_keywords, rw >>
         ELSE /\ weak_bullets' = get_weakest_bullets(result.impact.bullets,
                                                     MAX_BULLETS_TO_REWRITE)
              /\ missing_keywords' = result.keyword.missing_keywords
              /\ rw' = StartRewrite(weak_bullets')
              /\ pc' = "rewrite"
              /\ UNCHANGED << http_status, raised >>
    /\ UNCHANGED << weights, request, response, resume_bullets, task, result,
                    emb, components, score_result, rewrites, projection,
                    total_keywords, gap,
                    args, retval >>

\* The loop of rewrite_bullets moves on to the next bullet, and returns the
\* list after the last one; outs are the attempts spent on this bullet.
NextBullet(r, outs, n) ==
    [ st  |-> IF r.i + 1 > n THEN "returned" ELSE "running",
      i   |-> r.i + 1,
      cur |-> << >>,
      log |-> Append(r.log, outs) ]

\* A loop that ends at the first bullet whose rewrite failed.
StopAtFailedBullet(r, outs, n) ==
    [ st |-> "returned", i |-> r.i + 1, cur |-> << >>,
      log |-> Append(r.log, outs) ]

\* The except clause of lines 82-85: the bullet is skipped, the loop goes on.
SkipFailedBullet(r, outs, n) == NextBullet(r, outs, n)

\* One attempt of rewrite_single_bullet inside the loop of rewrite_bullets,
\* lines 53-87: a rewrite is appended, or after the last failed attempt the
\* bullet is skipped.
RewriteAttempt ==
    /\ rw.st = "running"
    /\ steps' = Ran("rewrite")
    /\ \E ok \in BOOLEAN, out \in LlmOutputs :
         LET bullets_to_rewrite == Take(weak_bullets, MAX_BULLETS_TO_REWRITE)
             keywords_to_use == Take(missing_keywords, MAX_KEYWORDS_TO_INJECT)
             bullet_data == bullets_to_rewrite[rw.i]
             outs == Append(rw.cur, ok)
         IN  IF ok
             THEN /\ rewrites' = Append(rewrites,
                        RewriteEntry(bullet_data, TextKeywords(bullet_data.text),
                                     [ text |-> out, kws |-> TextKeywords(out) ],
                                     keywords_to_use))
                  /\ rw' = NextBullet(rw, outs, Len(bullets_to_rewrite))
             ELSE IF AfterFailedAttempt(Len(outs)) = "retry"
             THEN /\ rw' = [ rw EXCEPT !.cur = outs ]
                  /\ UNCHANGED rewrites
             ELSE /\ rw' = SkipFailedBullet(rw, outs, Len(bullets_to_rewrite))
                  /\ UNCHANGED rewrites
    /\ UNCHANGED << weights, request, pc, http_status, response, raised,
                    resume_bullets, task, result, emb, components,
                    score_result, weak_bullets, missing_keywords, projection,
                    total_keywords, gap,
                    args, retval >>

\* A step 7 that passes the number of keywords the job description yielded.
ProjectWithKeywordsFound ==
    /\ pc = "rewrite"
    /\ rw.st = "returned"
    /\ steps' = Ran("project")
    /\ \E fault \in BOOLEAN :
         IF fault
         THEN /\ Abort(InternalError, "project")
              /\ UNCHANGED << projection, total_keywords >>
         ELSE /\ total_keywords' = Len(request.jd_terms)
              /\ projection' =
                    project_improved_score(score_result.final_score,
                                           score_result.breakdown, rewrites,
                                           result.impact.bullets,
                                           result.keyword.missing_keywords,
                                           total_keywords')
              /\ pc' = "respond"
              /\ UNCHANGED << http_status, raised >>
    /\ UNCHANGED << weights, request, response, resume_bullets, task, result,
                    emb, components, score_result, weak_bullets,
                    missing_keywords, rw, rewrites, gap,
                    args, retval >>

\* Step 7, lines 185-192, once rewrite_bullets has returned.
Project ==
    /\ pc = "rewrite"
    /\ rw.st = "returned"
    /\ steps' = Ran("project")
    /\ \E fault \in BOOLEAN :
         IF fault
         THEN /\ Abort(InternalError, "project")
              /\ UNCHANGED << projection, total_keywords >>
         ELSE /\ total_keywords' = TOP_KEYWORDS_COUNT
              /\ projection' =
                    project_improved_score(score_result.final_score,
                                           score_result.breakdown, rewrites,
                                           result.impact.bullets,
                                           result.keyword.missing_keywords,
                                           total_keywords')
              /\ pc' = "respond"
              /\ UNCHANGED << http_status, raised >>
    /\ UNCHANGED << weights, request, response, resume_bullets, task, result,
                    emb, components, score_result, weak_bullets,
                    missing_keywords, rw, rewrites, gap,
                    args, retval >>

\* The AnalysisResponse of lines 198-217.
AnalysisResponse ==
    [ final_score       |-> score_result.final_score,
      breakdown         |-> score_result.breakdown,
      missing_keywords  |-> Take(result.keyword.missing_keywords, 10),
      weak_bullets      |-> weak_bullets,
      rewritten_bullets |-> rewrites,
      projected_score   |-> projection.projected_score,
      improvement_delta |-> projection.improvement ]

\* Step 8, lines 198-224.
Respond ==
    /\ pc = "respond"
    /\ steps' = Ran("respond")
    /\ \E fault \in BOOLEAN :
         IF fault
         THEN /\ Abort(InternalError, "respond")
              /\ UNCHANGED response
         ELSE /\ response' = AnalysisResponse
              /\ http_status' = 200
              /\ pc' = "done"
              /\ UNCHANGED raised
    /\ UNCHANGED << weights, request, resume_bullets, task, result, emb,
                    components, score_result, weak_bullets, missing_keywords,
                    rw, rewrites, projection, total_keywords, gap,
                    args, retval >>

Next ==
    \/ Validate
    \/ Parse
    \/ Preprocess
    \/ KeywordTask
    \/ EmbedAttempt
    \/ ImpactTask
    \/ FormatTask
    \/ GatherRaise
    \/ Score
    \/ Weakest
    \/ RewriteAttempt
    \/ Project
    \/ Respond

Spec == Init /\ [][Next]_vars

\* ============================================================ unit calls
\* The services called on their own, on inputs wider than those the handler
\* passes.

\* A request that plays no part.
NoRequest ==
    [ jd_len |-> MIN_JD_LENGTH, resume |-> "text", content |-> NoContent,
      jd_terms |-> << >> ]

\* -------------------------- calculate_final_score on arbitrary mappings

\* Scores in hundredths: below the range, inside it, above it.
ScoreGrid == { -20 * Hundredths, 65 * Hundredths, 150 * Hundredths }

AllOf(v) == [ c \in ComponentSet |-> v ]

WeightedExample ==
    [ keyword_match |-> 70 * Hundredths, semantic_match |-> 80 * Hundredths,
      impact_strength |-> 65 * Hundredths, skills_alignment |-> 75 * Hundredths,
      experience_alignment |-> 70 * Hundredths,
      format_compliance |-> 90 * Hundredths ]

\* Mappings with any of the six components present.
ScoreInputs ==
    UNION { [ d -> ScoreGrid ] : d \in SUBSET ComponentSet }
      \cup { AllOf(100 * Hundredths), AllOf(0), WeightedExample }

\* A ScoringService has been constructed, its assert passed, and a caller
\* holds a mapping of component scores; args keeps what the mapping was
\* when the caller made it.
InitScoring ==
    /\ FreshHandler /\ FreshTasks /\ FreshResults /\ FreshRewrite
    /\ FreshProjection /\ FreshGap
    /\ WeightsSumToOne(weights)
    /\ request = NoRequest
    /\ pc = "call_score"
    /\ components \in ScoreInputs
    /\ args = [ components |-> components ]
    /\ retval = NoCall
    /\ score_result = NoScore

\* scoring_service.calculate_final_score(components): lines 47-50 write the
\* missing components into the caller's mapping.
CallScore ==
    /\ pc = "call_score"
    /\ components' = FillMissing(components)
    /\ score_result' = calculate_final_score(weights, components')
    /\ pc' = "returned_score"
    /\ UNCHANGED << weights, request, http_status, response, steps, raised,
                    resume_bullets, task, result, emb, weak_bullets,
                    missing_keywords, rw, rewrites, projection,
                    total_keywords, gap,
                    args, retval >>

\* A second scoring_service.calculate_final_score, on a new mapping equal
\* to the one the caller made for the first call.
CallScoreAgain ==
    /\ pc = "returned_score"
    /\ retval' = calculate_final_score(weights, FillMissing(args.components))
    /\ pc' = "returned_again"
    /\ UNCHANGED << weights, request, http_status, response, steps, raised,
                    resume_bullets, task, result, emb, components,
                    score_result, weak_bullets, missing_keywords, rw,
                    rewrites, projection, total_keywords, gap, args >>

\* scoring_service.get_weights().
CallGetWeights ==
    /\ pc = "returned_again"
    /\ retval' = get_weights(weights)
    /\ pc' = "returned_weights"
    /\ UNCHANGED << weights, request, http_status, response, steps, raised,
                    resume_bullets, task, result, emb, components,
                    score_result, weak_bullets, missing_keywords, rw,
                    rewrites, projection, total_keywords, gap, args >>

\* scoring_service.identify_top_improvements(breakdown).
CallImprovements ==
    /\ pc = "returned_weights"
    /\ retval' = identify_top_improvements(score_result.breakdown)
    /\ pc' = "returned_improvements"
    /\ UNCHANGED << weights, request, http_status, response, steps, raised,
                    resume_bullets, task, result, emb, components,
                    score_result, weak_bullets, missing_keywords, rw,
                    rewrites, projection, total_keywords, gap, args >>

NextScoring ==
    CallScore \/ CallScoreAgain \/ CallGetWeights \/ CallImprovements

SpecScoring == InitScoring /\ [][NextScoring]_vars

\* ------------------------------------ ImpactService on arbitrary bullets

\* Every outcome of the five detectors.
FeatureBullets ==
    { [ text |-> "bullet", quant |-> q, strong |-> s, concise |-> c,
        active |-> a, weak |-> w ] :
        q \in BOOLEAN, s \in BOOLEAN, c \in BOOLEAN, a \in BOOLEAN,
        w \in { << >>, << "helped" >> } }

BulletLists(n) == UNION { [ 1..k -> FeatureBullets ] : k \in 0..n }

Feature(q, s, c, a) ==
    [ text |-> "bullet", quant |-> q, strong |-> s, concise |-> c,
      active |-> a, weak |-> << >> ]

\* Four bullets that score 90, 30, 50 and 20.
ScoreExampleBullets ==
    << Feature(TRUE, TRUE, TRUE, FALSE), Feature(FALSE, TRUE, FALSE, FALSE),
       Feature(TRUE, FALSE, FALSE, FALSE), Feature(FALSE, FALSE, FALSE, TRUE) >>

InitImpact ==
    /\ FreshCall /\ FreshHandler /\ FreshTasks /\ FreshScore /\ FreshRewrite
    /\ FreshProjection /\ FreshGap
    /\ request = NoRequest
    /\ pc = "call_impact"
    /\ resume_bullets \in BulletLists(MaxBullets) \cup { ScoreExampleBullets }
    /\ result = PendingResult

\* impact_service.analyze_all_bullets(resume_bullets).
CallAnalyze ==
    /\ pc = "call_impact"
    /\ result' = [ result EXCEPT !.impact = analyze_all_bullets(resume_bullets) ]
    /\ pc' = "call_weakest"
    /\ UNCHANGED << weights, request, http_status, response, steps, raised,
                    resume_bullets, task, emb, components, score_result,
                    weak_bullets, missing_keywords, rw, rewrites, projection,
                    total_keywords, gap,
                    args, retval >>

\* impact_service.get_weakest_bullets(bullets, count).
CallWeakest ==
    /\ pc = "call_weakest"
    /\ \E count \in 0..MAX_BULLETS_TO_REWRITE :
         /\ args' = [ count |-> count ]
         /\ weak_bullets' = get_weakest_bullets(result.impact.bullets, count)
    /\ pc' = "returned_impact"
    /\ UNCHANGED << weights, request, http_status, response, steps, raised,
                    resume_bullets, task, result, emb, components,
                    score_result, missing_keywords, rw, rewrites, projection,
                    total_keywords, gap, retval >>

NextImpact == CallAnalyze \/ CallWeakest

SpecImpact == InitImpact /\ [][NextImpact]_vars

\* ------------------------------------- project_improved_score on its own

\* The current component scores the projection starts from.
CurrentComponents ==
    { WeightedExample, AllOf(0), AllOf(100 * Hundredths),
      [ WeightedExample EXCEPT !.keyword_match = 33 * Hundredths + 33 ],
      [ keyword_match |-> 50 * Hundredths ] }

AnalysedLists ==
    { << >>,
      << analyze_bullet_impact(BulletHelped) >>,
      << analyze_bullet_impact(BulletHelped),
         analyze_bullet_impact(BulletIncreased) >>,
      << analyze_bullet_impact(BulletManaged),
         analyze_bullet_impact(BulletHelped) >>,
      << analyze_bullet_impact(BulletHelped),
         analyze_bullet_impact(BulletManaged),
         analyze_bullet_impact(BulletHelped) >> }

KeywordLists ==
    { << >>, << "kubernetes", "docker" >>, << "Python" >>,
      << "Docker", "docker" >> }

\* The rewrites rewrite_bullets can return for the weakest of the bullets.
RewriteLists(analysed, keywords) ==
    LET entries ==
          { RewriteEntry(b, TextKeywords(b.text),
                         [ text |-> out, kws |-> TextKeywords(out) ], keywords) :
              b \in { analysed[i] : i \in 1..Len(analysed) }, out \in LlmOutputs }
    IN  { << >> } \cup { << e >> : e \in entries }
          \cup { << q[1], q[2] >> :
                   q \in { r \in entries \X entries :
                             r[1].original # r[2].original } }

\* The components analyze_resume builds (main.py, lines 155-162) when the
\* impact analysis is that of the given bullets: impact_strength is its
\* average_score.
LiveComponents(analysed) ==
    LET average_score ==
          IF analysed = << >> THEN 0
          ELSE RoundHalfEven(SumImpact(analysed) * Hundredths, Len(analysed))
    IN  { [ WeightedExample EXCEPT !.impact_strength = average_score ],
          [ WeightedExample EXCEPT !.impact_strength = average_score,
                                   !.keyword_match = 33 * Hundredths + 33 ] }

InitProjection ==
    /\ FreshCall /\ FreshHandler /\ FreshTasks /\ FreshGap
    /\ request = NoRequest
    /\ pc = "call_project"
    /\ resume_bullets = << >>
    /\ \E analysed \in AnalysedLists :
         /\ result = [ PendingResult EXCEPT
                         !.impact = [ @ EXCEPT !.bullets = analysed ] ]
         /\ weak_bullets = get_weakest_bullets(analysed, MAX_BULLETS_TO_REWRITE)
         /\ missing_keywords \in KeywordLists
         /\ rewrites \in RewriteLists(analysed, missing_keywords)
         /\ components \in CurrentComponents \cup LiveComponents(analysed)
    /\ rw = [ RwIdle EXCEPT !.st = "returned" ]
    /\ score_result \in
         { calculate_final_score(weights, FillMissing(components)),
           [ final_score |-> 0, breakdown |-> NoComponents ] }
    /\ projection = NoProjection
    /\ total_keywords \in { 0, MaxKeywords, TOP_KEYWORDS_COUNT }

\* projection_service.project_improved_score(current_score,
\* current_breakdown, rewrites, original_bullets, missing_keywords,
\* total_keywords).
CallProject ==
    /\ pc = "call_project"
    /\ projection' =
          project_improved_score(score_result.final_score,
                                 score_result.breakdown, rewrites,
                                 result.impact.bullets, missing_keywords,
                                 total_keywords)
    /\ pc' = "returned_project"
    /\ UNCHANGED << weights, request, http_status, response, steps, raised,
                    resume_bullets, task, result, emb, components,
                    score_result, weak_bullets, missing_keywords, rw,
                    rewrites, total_keywords, gap,
                    args, retval >>

NextProjection == CallProject

SpecProjection == InitProjection /\ [][NextProjection]_vars

\* ------------------------------- the retrying collaborator calls on their own

\* What the generative collaborator may answer to the gap analysis prompt:
\* a JSON object, a text without braces, a text whose braces hold no JSON.
GapResponses ==
    { [ braces |-> TRUE,  json |-> TRUE,  text |-> "{gaps: [no cloud experience]}",
        gaps |-> << "no cloud experience" >> ],
      [ braces |-> FALSE, json |-> FALSE, text |-> "no cloud experience",
        gaps |-> << >> ],
      [ braces |-> TRUE,  json |-> FALSE, text |-> "{gaps: no cloud",
        gaps |-> << >> ] }

\* _parse_gap_analysis, lines 224-245.
parse_gap_analysis(resp) ==
    IF resp.braces
    THEN IF resp.json
         THEN [ gaps |-> resp.gaps, explanation |-> "" ]
         ELSE [ gaps |-> << >>, explanation |-> "" ]
    ELSE [ gaps |-> << resp.text >>, explanation |-> "" ]

\* The except clause of analyze_semantic_gaps, lines 141-146.
GapFallback == [ gaps |-> << >>, explanation |-> "Analysis unavailable" ]

\* One attempt of _call_gemini_with_retry inside analyze_semantic_gaps,
\* lines 128-146.
GapAttempt ==
    /\ gap.st = "running"
    /\ steps' = Ran("gap")
    /\ \E ok \in BOOLEAN, resp \in GapResponses :
         LET outs == Append(gap.cur, ok)
             over(analysis) ==
                 [ st |-> "returned", cur |-> << >>,
                   log |-> Append(gap.log, outs), gaps |-> analysis.gaps,
                   explanation |-> analysis.explanation ]
         IN  IF ok
             THEN gap' = over(parse_gap_analysis(resp))
             ELSE IF AfterFailedAttempt(Len(outs)) = "retry"
             THEN gap' = [ gap EXCEPT !.cur = outs ]
             ELSE gap' = over(GapFallback)
    /\ UNCHANGED << weights, request, pc, http_status, response, raised,
                    resume_bullets, task, result, emb, components,
                    score_result, weak_bullets, missing_keywords, rw,
                    rewrites, projection, total_keywords,
                    args, retval >>

\* Lists of analysed bullets with different texts and scores.
WeakBulletLists(n) ==
    UNION { [ 1..k -> { analyze_bullet_impact(BulletHelped),
                        analyze_bullet_impact(BulletManaged) } ] : k \in 0..n }

\* One of compute_semantic_similarity, rewrite_bullets and
\* analyze_semantic_gaps has been called.
InitCollab ==
    /\ FreshCall /\ FreshHandler /\ FreshResults /\ FreshScore /\ FreshProjection
    /\ request = NoRequest
    /\ pc = "call_collab"
    /\ emb = EmbIdle
    /\ rewrites = << >>
    /\ \E callee \in { "semantic", "rewrite", "gap" } :
         /\ task = [ t \in TaskNames |->
                       IF t = "semantic" /\ callee = "semantic"
                       THEN "running" ELSE "idle" ]
         /\ IF callee = "rewrite"
            THEN /\ weak_bullets \in WeakBulletLists(MaxWeakBullets)
                 /\ missing_keywords \in KeywordLists
                 /\ rw = StartRewrite(weak_bullets)
            ELSE /\ weak_bullets = << >>
                 /\ missing_keywords = << >>
                 /\ rw = RwIdle
         /\ gap = IF callee = "gap"
                  THEN [ GapIdle EXCEPT !.st = "running" ] ELSE GapIdle

NextCollab == EmbedAttempt \/ RewriteAttempt \/ GapAttempt

SpecCollab == InitCollab /\ [][NextCollab]_vars

\* ----------------------------------- detect_quantification on its own

\* Longest bullet, in words, built from the vocabulary below.
MaxWords == 2

BulletWords ==
    { << "L", "e", "d" >>,
      << "t", "e", "a", "m" >>,
      << "o", "f" >>,
      << "5" >>,
      << "e", "n", "g", "i", "n", "e", "e", "r", "s" >>,
      << "p", "e", "o", "p", "l", "e" >>,
      << "2", "5", "%" >>,
      << "$", "2", "M" >>,
      << "b", "y" >>,
      << "g", "r", "e", "w" >>,
      << "t", "a", "s", "k", "s" >>,
      << "u", "s", "e", "r", "s" >> }

TextIncreased ==
    << "I", "n", "c", "r", "e", "a", "s", "e", "d", " ", "s", "a", "l",
       "e", "s", " ", "b", "y", " ", "2", "5", "%" >>

TextGenerated ==
    << "G", "e", "n", "e", "r", "a", "t", "e", "d", " ", "$", "2", "M",
       " ", "i", "n", " ", "r", "e", "v", "e", "n", "u", "e" >>

TextLed ==
    << "L", "e", "d", " ", "t", "e", "a", "m", " ", "o", "f", " ", "5",
       " ", "e", "n", "g", "i", "n", "e", "e", "r", "s" >>

TextHelped ==
    << "H", "e", "l", "p", "e", "d", " ", "w", "i", "t", "h", " ", "v",
       "a", "r", "i", "o", "u", "s", " ", "t", "a", "s", "k", "s" >>

\* " ".join(words)
RECURSIVE JoinWords(_)
JoinWords(words) ==
    IF words = << >> THEN << >>
    ELSE IF Len(words) = 1 THEN words[1]
    ELSE words[1] \o << " " >> \o JoinWords(Tail(words))

\* The bullets detect_quantification is tried on.
BulletTexts ==
    { JoinWords(ws) : ws \in UNION { [ 1..k -> BulletWords ] : k \in 0..MaxWords } }
      \cup { TextIncreased, TextGenerated, TextLed, TextHelped }

InitQuantify ==
    /\ FreshHandler /\ FreshTasks /\ FreshResults /\ FreshScore
    /\ FreshRewrite /\ FreshProjection /\ FreshGap
    /\ request = NoRequest
    /\ pc = "call_detect"
    /\ args \in [ bullet : BulletTexts ]
    /\ retval = NoCall

\* impact_service.detect_quantification(bullet).
CallDetect ==
    /\ pc = "call_detect"
    /\ retval' = SearchQuantification(args.bullet)
    /\ pc' = "returned_detect"
    /\ UNCHANGED << weights, request, http_status, response, steps, raised,
                    resume_bullets, task, result, emb, components,
                    score_result, weak_bullets, missing_keywords, rw,
                    rewrites, projection, total_keywords, gap, args >>

NextQuantify == CallDetect

SpecQuantify == InitQuantify /\ [][NextQuantify]_vars

\* -------------------------------------------- KeywordService on its own

KwPython == << "P", "y", "t", "h", "o", "n" >>

KwLeadership == << "l", "e", "a", "d", "e", "r", "s", "h", "i", "p" >>

KwDocker == << "D", "o", "c", "k", "e", "r" >>

KwAwsCertified == << "A", "W", "S", " ", "C", "e", "r", "t", "i", "f", "i", "e", "d" >>

KwBudget == << "b", "u", "d", "g", "e", "t" >>

KwPythons == << "p", "y", "t", "h", "o", "n", "s" >>

KwReviewing == << "r", "e", "v", "i", "e", "w", "i", "n", "g" >>

KeywordTexts ==
    { KwPython, KwLeadership, KwDocker, KwAwsCertified, KwBudget, KwPythons,
      KwReviewing }

ResumeSenior ==
    << "S", "e", "n", "i", "o", "r", " ", "P", "y", "t", "h", "o", "n",
       " ", "e", "n", "g", "i", "n", "e", "e", "r", ",", " ", "d", "o",
       "c", "k", "e", "r", "i", "z", "e", "d", " ", "s", "e", "r", "v",
       "i", "c", "e", "s" >>

ResumeBudget ==
    << "L", "e", "d", " ", "b", "u", "d", "g", "e", "t", " ", "r", "e",
       "v", "i", "e", "w", "s", " ", "w", "i", "t", "h", " ", "l", "e",
       "a", "d", "e", "r", "s", "h", "i", "p" >>

ResumeTexts == { << >>, ResumeSenior, ResumeBudget }

\* Lists of keywords, at most n long.
KeywordSeqs(n) == UNION { [ 1..k -> KeywordTexts ] : k \in 0..n }

\* Arguments of calculate_coverage_score: the matched count in halves.
CoverageArgs ==
    [ matched_halves : { 0, 2, 11, 14, 20, 30 }, total_count : { 0, 3, 10 } ]

\* Either the keyword analysis of a resume or calculate_coverage_score alone
\* is called.
InitKeywords ==
    /\ FreshHandler /\ FreshTasks /\ FreshResults /\ FreshScore
    /\ FreshRewrite /\ FreshProjection /\ FreshGap
    /\ request = NoRequest
    /\ retval = NoCall
    /\ \/ /\ pc = "call_categorize"
          /\ args \in [ resume : ResumeTexts, keywords : KeywordSeqs(MaxKeywords) ]
       \/ /\ pc = "call_coverage"
          /\ args \in CoverageArgs

\* keyword_service.categorize_keywords(keywords), line 70.
CallCategorize ==
    /\ pc = "call_categorize"
    /\ retval' = [ keywords |-> categorize_keywords(args.keywords) ]
    /\ pc' = "call_match"
    /\ UNCHANGED << weights, request, http_status, response, steps, raised,
                    resume_bullets, task, result, emb, components,
                    score_result, weak_bullets, missing_keywords, rw,
                    rewrites, projection, total_keywords, gap, args >>

\* keyword_service.match_keywords(resume, keywords) and the coverage score
\* of its buckets, lines 73-79.
CallMatch ==
    /\ pc = "call_match"
    /\ LET matches == match_keywords(args.resume, args.keywords)
       IN  retval' =
             [ keywords |-> retval.keywords,
               matches  |-> matches,
               coverage_score |->
                 calculate_coverage_score(
                     2 * Len(matches.exact) + Len(matches.partial),
                     Len(args.keywords)) ]
    /\ pc' = "returned_keywords"
    /\ UNCHANGED << weights, request, http_status, response, steps, raised,
                    resume_bullets, task, result, emb, components,
                    score_result, weak_bullets, missing_keywords, rw,
                    rewrites, projection, total_keywords, gap, args >>

\* keyword_service.calculate_coverage_score(matched_count, total_count).
CallCoverage ==
    /\ pc = "call_coverage"
    /\ retval' = calculate_coverage_score(args.matched_halves, args.total_count)
    /\ pc' = "returned_coverage"
    /\ UNCHANGED << weights, request, http_status, response, steps, raised,
                    resume_bullets, task, result, emb, components,
                    score_result, weak_bullets, missing_keywords, rw,
                    rewrites, projection, total_keywords, gap, args >>

NextKeywords == CallCategorize \/ CallMatch \/ CallCoverage

SpecKeywords == InitKeywords /\ [][NextKeywords]_vars

\* ------------------------------------------ PreprocessService on its own

MaxFragments == 3

FragApply == << "A", "p", "p", "l", "y", " " >>

FragClickHere == << "c", "l", "i", "c", "k", " ", "h", "e", "r", "e" >>

FragNow == << " ", "n", "o", "w" >>

FragEoe == << "E", "O", "E" >>

\* The pieces the texts are put together from.
Fragments ==
    { FragApply, FragClickHere, FragNow, FragEoe, << "\n" >>,
      << NoBreakSpace >>, << EnDash >> }

RECURSIVE Flatten(_)
Flatten(pieces) ==
    IF pieces = << >> THEN << >> ELSE Head(pieces) \o Flatten(Tail(pieces))

RawTexts ==
    { Flatten(pieces) : pieces \in UNION { [ 1..k -> Fragments ] : k \in 0..MaxFragments } }

\* A raw text is about to be cleaned, or normalized as a job description.
InitPreprocess ==
    /\ FreshHandler /\ FreshTasks /\ FreshResults /\ FreshScore
    /\ FreshRewrite /\ FreshProjection /\ FreshGap
    /\ request = NoRequest
    /\ retval = NoCall
    /\ pc \in { "call_clean", "call_normalize" }
    /\ args \in [ text : RawTexts ]

\* clean_text(text).
CallClean ==
    /\ pc = "call_clean"
    /\ retval' = [ once |-> clean_text(args.text) ]
    /\ pc' = "call_clean_again"
    /\ UNCHANGED << weights, request, http_status, response, steps, raised,
                    resume_bullets, task, result, emb, components,
                    score_result, weak_bullets, missing_keywords, rw,
                    rewrites, projection, total_keywords, gap, args >>

\* clean_text of what clean_text returned.
CallCleanAgain ==
    /\ pc = "call_clean_again"
    /\ retval' = [ once |-> retval.once, twice |-> clean_text(retval.once) ]
    /\ pc' = "returned_clean"
    /\ UNCHANGED << weights, request, http_status, response, steps, raised,
                    resume_bullets, task, result, emb, components,
                    score_result, weak_bullets, missing_keywords, rw,
                    rewrites, projection, total_keywords, gap, args >>

\* normalize_job_description(jd).
CallNormalize ==
    /\ pc = "call_normalize"
    /\ retval' = [ once |-> normalize_job_description(args.text) ]
    /\ pc' = "call_normalize_again"
    /\ UNCHANGED << weights, request, http_status, response, steps, raised,
                    resume_bullets, task, result, emb, components,
                    score_result, weak_bullets, missing_keywords, rw,
                    rewrites, projection, total_keywords, gap, args >>

\* normalize_job_description of what normalize_job_description returned.
CallNormalizeAgain ==
    /\ pc = "call_normalize_again"
    /\ retval' = [ once |-> retval.once,
                   twice |-> normalize_job_description(retval.once) ]
    /\ pc' = "returned_normalize"
    /\ UNCHANGED << weights, request, http_status, response, steps, raised,
                    resume_bullets, task, result, emb, components,
                    score_result, weak_bullets, missing_keywords, rw,
                    rewrites, projection, total_keywords, gap, args >>

NextPreprocess ==
    CallClean \/ CallCleanAgain \/ CallNormalize \/ CallNormalizeAgain

SpecPreprocess == InitPreprocess /\ [][NextPreprocess]_vars

\* ================================================================ properties

\* The clamp of a score in hundredths, written out.
IntoRange(x) ==
    IF x > 100 * Hundredths THEN 100 * Hundredths ELSE IF x < 0 THEN 0 ELSE x

\* The weighted sum of the clamped scores with the six weights written out,
\* in 1/(100 * Hundredths) of a point.
WeightedTotal(comps) ==
      IntoRange(comps.keyword_match) * 30
    + IntoRange(comps.semantic_match) * 25
    + IntoRange(comps.impact_strength) * 15
    + IntoRange(comps.skills_alignment) * 10
    + IntoRange(comps.experience_alignment) * 10
    + IntoRange(comps.format_compliance) * 10

\* C1: whatever mapping calculate_final_score is given, scores above 100 and
\* below 0 included, each component is clamped into [0,100] before it is
\* weighted, every breakdown score lies in [0,100] and final_score is an
\* integer between 0 and 100.
C1_ScoresClamped ==
    pc = "returned_score" =>
        /\ score_result.final_score \in 0..100
        /\ \A c \in ComponentSet :
             /\ score_result.breakdown[c].score \in 0..(100 * Hundredths)
             /\ score_result.breakdown[c].score = IntoRange(components[c])
        /\ score_result.final_score =
             calculate_final_score(weights,
                 [ c \in ComponentSet |-> IntoRange(components[c]) ]).final_score

\* A mapping with a score of 150 and one of -20 has been scored.
C1_Witness ==
    /\ pc = "returned_score"
    /\ components.keyword_match = 150 * Hundredths
    /\ components.semantic_match = -20 * Hundredths
    /\ score_result.breakdown.keyword_match.score = 100 * Hundredths
    /\ score_result.breakdown.semantic_match.score = 0

\* C2: final_score is the sum over the six components of clamped score times
\* weight, rounded to the nearest integer; all 100 gives 100, all 0 gives 0
\* and the weighted example gives 74.
C2_WeightedSumRounded ==
    pc = "returned_score" =>
        LET total == WeightedTotal(components)
            unit  == 100 * Hundredths
            diff  == score_result.final_score * unit - total
        IN  /\ 2 * diff <= unit
            /\ 2 * diff >= -unit
            /\ components = AllOf(100 * Hundredths) => score_result.final_score = 100
            /\ components = AllOf(0) => score_result.final_score = 0
            /\ components = WeightedExample => score_result.final_score = 74

\* The weighted example has been scored 74.
C2_Witness ==
    /\ pc = "returned_score"
    /\ components = WeightedExample
    /\ WeightedTotal(components) = 7425 * Hundredths
    /\ score_result.final_score = 74

\* C3: projected_score is calculate_final_score, with the weights of the
\* live scoring path, of the six component scores of which impact_strength
\* and keyword_match are the projected values and the other four those of
\* the current breakdown.
C3_ProjectionUsesScoring ==
    projection # NoProjection =>
        LET score(c) == IF c \in DOMAIN score_result.breakdown
                        THEN score_result.breakdown[c].score ELSE 0
            six ==
              [ keyword_match |->
                  calculate_new_keyword_coverage(score("keyword_match"),
                      rewrites, missing_keywords, total_keywords),
                semantic_match |-> score("semantic_match"),
                impact_strength |->
                  calculate_new_impact_score(result.impact.bullets, rewrites),
                skills_alignment |-> score("skills_alignment"),
                experience_alignment |-> score("experience_alignment"),
                format_compliance |-> score("format_compliance") ]
        IN  /\ projection.projected_score =
                 calculate_final_score(weights, six).final_score
            /\ 2 * (projection.projected_score * 100 * Hundredths
                      - WeightedTotal(six)) \in
                 (-100 * Hundredths)..(100 * Hundredths)

\* A projection in which a rewrite has added keywords, so that both
\* replaced components differ from the current ones.
C3_Witness ==
    /\ pc = "returned_project"
    /\ projection.breakdown.keyword_coverage > 0
    /\ projection.breakdown.impact_strength > 0
    /\ projection.projected_score > projection.current_score

\* Some invocation of get_embedding has failed three times.
EmbeddingExhausted ==
    \E k \in 1..Len(emb.log) : emb.log[k] = << FALSE, FALSE, FALSE >>

\* C4: compute_semantic_similarity never propagates a failure: when an
\* embedding call has used up its retries it returns the neutral 50.0, and
\* the analysis goes on to score aggregation with semantic_match = 50.0.
C4_SemanticFallback ==
    /\ task.semantic # "failed"
    /\ "embedding" \notin raised
    /\ EmbeddingExhausted =>
         /\ task.semantic = "done"
         /\ result.semantic = 50 * Hundredths
         /\ score_result # NoScore =>
              /\ components.semantic_match = 50 * Hundredths
              /\ score_result.breakdown.semantic_match.score = 50 * Hundredths
         /\ (pc = "done" /\ http_status = 500) => raised # { }

\* A request whose second embedding call failed three times has been
\* answered, with the neutral semantic score.
C4_Witness ==
    /\ pc = "done"
    /\ http_status = 200
    /\ emb.log = << << TRUE >>, << FALSE, FALSE, FALSE >> >>
    /\ response.breakdown.semantic_match.score = 50 * Hundredths

\* What each gathered task returns for the request, by itself.
FinalResult(t) ==
    CASE t = "keyword" ->
           analyze_keywords(Take(KeywordFindings(request.content,
                                                 request.jd_terms),
                                 TOP_KEYWORDS_COUNT))
      [] t = "impact" -> analyze_all_bullets(CleanedBullets(request.content))
      [] t = "format" -> format_compliance_score(request.content)
      [] t = "semantic" -> result.semantic

\* C5: the four analyses run as independent tasks and are joined before the
\* aggregation: calculate_final_score runs only after all four have
\* completed, its inputs are exactly their final results, and no task reads
\* a partial result of another.
C5_FanOutFanIn ==
    /\ \A t \in TaskNames :
         /\ task[t] # "done" => result[t] = PendingResult[t]
         /\ task[t] = "done" => result[t] = FinalResult(t)
    /\ score_result # NoScore =>
         /\ \A t \in TaskNames : task[t] = "done"
         /\ components =
              [ keyword_match        |-> FinalResult("keyword").coverage_score,
                semantic_match       |-> FinalResult("semantic"),
                impact_strength      |-> FinalResult("impact").average_score,
                skills_alignment     |-> FinalResult("keyword").skills_match_score,
                experience_alignment |-> FinalResult("semantic"),
                format_compliance    |-> FinalResult("format") ]
         /\ score_result = calculate_final_score(weights, components)
    /\ steps.score > 0 => \A t \in TaskNames : task[t] \in { "done" }

\* The aggregation has run after the keyword task, which was the last of the
\* four to finish, and after an embedding call that was retried.
C5_Witness ==
    /\ pc = "weakest"
    /\ score_result # NoScore
    /\ steps.keyword = 1 /\ steps.impact = 1 /\ steps.format = 1
    /\ steps.embedding > 2
    /\ result.keyword.coverage_score > 0
    /\ result.format > 0

\* The requests that fail input validation.
JdInvalid == request.jd_len < MIN_JD_LENGTH \/ request.jd_len > MAX_JD_LENGTH

ResumeInvalid == request.resume \in { "none", "empty_text", "blank_text" }

\* C8: a job description that is too short or too long, a missing resume and
\* an empty resume text end the request with HTTP 400 at once: no later step
\* runs, the validation is not retried and the error does not become a 500.
C8_ValidationErrors ==
    (JdInvalid \/ ResumeInvalid) =>
        /\ \A s \in StepNames \ { "validate", "parse" } : steps[s] = 0
        /\ steps.validate <= 1 /\ steps.parse <= 1
        /\ JdInvalid => steps.parse = 0
        /\ JdInvalid /\ steps.validate = 1 => pc = "done"
        /\ steps.parse = 1 => pc = "done"
        /\ \A t \in TaskNames : task[t] = "idle"
        /\ http_status \in { 0, 400 }
        /\ raised = { }
        /\ pc = "done" => http_status = 400 /\ response = NoResponse

\* A request with a job description above the limit has been refused.
C8_Witness ==
    /\ request.jd_len > MAX_JD_LENGTH
    /\ request.resume = "text"
    /\ pc = "done"
    /\ http_status = 400
    /\ steps.validate = 1 /\ steps.parse = 0

\* C9: an exception that is not an HTTPException, raised by any step but
\* the embedding and per-bullet rewrite calls, ends the request with HTTP
\* 500 and without a response; a response is returned only when all eight
\* steps have completed.
C9_InternalErrors ==
    /\ raised # { } =>
         /\ response = NoResponse
         /\ http_status \in { 0, 500 }
         /\ pc \in { "gather", "done" }
         /\ pc = "done" => http_status = 500
    /\ response # NoResponse =>
         /\ pc = "done" /\ http_status = 200 /\ raised = { }
         /\ steps.parse = 1 /\ steps.preprocess = 1
         /\ \A t \in TaskNames : task[t] = "done"
         /\ steps.score = 1 /\ steps.weakest = 1
         /\ rw.st = "returned"
         /\ steps.project = 1 /\ steps.respond = 1
         /\ response = AnalysisResponse
    /\ http_status = 200 => response # NoResponse

\* The projection raised after scores and rewrites had been computed, and
\* the request ended with a 500 and nothing else.
C9_Witness ==
    /\ pc = "done"
    /\ raised = { "project" }
    /\ http_status = 500
    /\ score_result # NoScore
    /\ rewrites # << >>
    /\ response = NoResponse

\* The attempts of one invocation that is over: at most three, a success
\* only as the last one, and a failure as the last one only if it is the
\* third.
AttemptsOfInvocation(outs) ==
    /\ Len(outs) \in 1..3
    /\ \A k \in 1..(Len(outs) - 1) : outs[k] = FALSE
    /\ outs[Len(outs)] = FALSE => Len(outs) = 3

\* The attempts of an invocation in progress: fewer than three failures.
AttemptsInProgress(outs) ==
    /\ Len(outs) < 3
    /\ \A k \in 1..Len(outs) : outs[k] = FALSE

Succeeded(outs) == outs[Len(outs)] = TRUE

RECURSIVE CountSucceeded(_)
CountSucceeded(log) ==
    IF log = << >> THEN 0
    ELSE (IF Succeeded(log[1]) THEN 1 ELSE 0) + CountSucceeded(Tail(log))

\* C6: get_embedding, rewrite_single_bullet and _call_gemini_with_retry are
\* attempted at most 3 times per invocation; a success ends the invocation,
\* and only the third failure in a row reaches the caller, which answers
\* with 50.0 for the semantic similarity and leaves the bullet out of the
\* rewrites.
C6_BoundedRetry ==
    /\ \A k \in 1..Len(emb.log) : AttemptsOfInvocation(emb.log[k])
    /\ \A k \in 1..Len(rw.log) : AttemptsOfInvocation(rw.log[k])
    /\ \A k \in 1..Len(gap.log) : AttemptsOfInvocation(gap.log[k])
    /\ AttemptsInProgress(emb.cur)
    /\ AttemptsInProgress(rw.cur)
    /\ AttemptsInProgress(gap.cur)
    /\ \A t \in TaskNames : task[t] # "failed"
    /\ Len(emb.log) <= 2
    /\ \A k \in 1..Len(emb.log) :
         ~Succeeded(emb.log[k]) =>
             /\ k = Len(emb.log)
             /\ task.semantic = "done"
             /\ result.semantic = 50 * Hundredths
    /\ Len(emb.log) = 2 => task.semantic = "done"
    /\ Len(rewrites) = CountSucceeded(rw.log)
    /\ Len(gap.log) <= 1
    /\ \A k \in 1..Len(gap.log) :
         /\ gap.st = "returned"
         /\ ~Succeeded(gap.log[k]) => gap.gaps = << >>

\* rewrite_bullets has rewritten one bullet at the third attempt and left
\* out another after three failures.
C6_Witness ==
    /\ pc = "call_collab"
    /\ rw.st = "returned"
    /\ rw.log = << << FALSE, FALSE, TRUE >>, << FALSE, FALSE, FALSE >> >>
    /\ Len(rewrites) = 1

\* The texts of the bullets whose rewrite succeeded, in the order of the
\* list handed to rewrite_bullets.
RECURSIVE RewrittenTexts(_, _, _)
RewrittenTexts(bullets, log, k) ==
    IF k > Len(log) THEN << >>
    ELSE (IF Succeeded(log[k]) THEN << bullets[k].text >> ELSE << >>)
         \o RewrittenTexts(bullets, log, k + 1)

\* C7: rewrite_bullets takes the weak bullets one after the other in input
\* order; a bullet whose rewrite fails is left out and the loop goes on, so
\* that the list returned holds, in input order, one rewrite for each of the
\* first MAX_BULLETS_TO_REWRITE weak bullets whose rewrite succeeded, and
\* rewrite_bullets does not raise.
C7_RewriteLoop ==
    pc = "call_collab" =>
        LET n == IF Len(weak_bullets) < 3 THEN Len(weak_bullets) ELSE 3
        IN  /\ rw.st \in { "idle", "running", "returned" }
            /\ Len(rw.log) <= n
            /\ rw.st = "running" => rw.i = Len(rw.log) + 1 /\ rw.i <= n
            /\ rw.st = "returned" => Len(rw.log) = n
            /\ [ k \in 1..Len(rewrites) |-> rewrites[k].original ] =
                 RewrittenTexts(weak_bullets, rw.log, 1)
            /\ raised = { } /\ http_status = 0

\* Of four weak bullets the first three were tried: the second failed three
\* times, the first and the third are in the list returned.
C7_Witness ==
    /\ pc = "call_collab"
    /\ Len(weak_bullets) = 4
    /\ weak_bullets[1].text # weak_bullets[3].text
    /\ rw.st = "returned"
    /\ Succeeded(rw.log[1])
    /\ rw.log[2] = << FALSE, FALSE, FALSE >>
    /\ Succeeded(rw.log[3])
    /\ Len(rewrites) = 2
    /\ rewrites[1].original = weak_bullets[1].text
    /\ rewrites[2].original = weak_bullets[3].text

\* The formula of the impact score, from the five flags of a bullet.
ImpactFormula(b) ==
    LET base == (IF b.quant THEN 40 ELSE 0)
              + (IF b.strong THEN 30 ELSE IF b.weak = << >> THEN 10 ELSE 0)
              + (IF b.concise THEN 20 ELSE 0)
              + (IF b.active THEN 10 ELSE 0)
        penalised == IF b.weak # << >>
                     THEN (IF base - 20 < 0 THEN 0 ELSE base - 20)
                     ELSE base
    IN  IF penalised > 100 THEN 100 ELSE IF penalised < 0 THEN 0 ELSE penalised

\* C10: for all 32 combinations of the five flags score_bullet_impact is 0,
\* plus 40 if quantified, plus 30 for a strong verb or else 10 if there is
\* no weak phrase, plus 20 if concise, plus 10 if active, minus 20 but not
\* below 0 if there is a weak phrase, within [0,100]; the all-strong vector
\* scores at least 80 and the weak-only vector at most 30.
C10_ImpactFormula ==
    pc \in { "call_weakest", "returned_impact" } =>
        /\ Len(result.impact.bullets) = Len(resume_bullets)
        /\ \A i \in 1..Len(resume_bullets) :
             LET b == resume_bullets[i]
                 score == result.impact.bullets[i].impact_score
             IN  /\ score = ImpactFormula(b)
                 /\ score \in 0..100
                 /\ (b.quant /\ b.strong /\ b.concise /\ b.active
                       /\ b.weak = << >>) => score >= 80
                 /\ (~b.quant /\ ~b.strong /\ ~b.concise /\ ~b.active
                       /\ b.weak # << >>) => score <= 30

\* The all-strong bullet and the weak-only bullet have been scored.
C10_Witness ==
    /\ pc = "call_weakest"
    /\ Len(resume_bullets) = 2
    /\ resume_bullets[1].quant /\ resume_bullets[1].strong
    /\ resume_bullets[1].concise /\ resume_bullets[1].active
    /\ resume_bullets[1].weak = << >>
    /\ result.impact.bullets[1].impact_score = 100
    /\ ~resume_bullets[2].quant /\ ~resume_bullets[2].strong
    /\ ~resume_bullets[2].concise /\ ~resume_bullets[2].active
    /\ resume_bullets[2].weak # << >>
    /\ result.impact.bullets[2].impact_score = 0

\* C11: get_weakest_bullets returns the first K elements of a stable
\* ascending sort by impact_score: min(K, n) elements, scores non-decreasing,
\* no omitted bullet scores less than a returned one, bullets of equal score
\* in input order; scores 90, 30, 50, 20 with count 2 give 20, 30.
C11_WeakestStableSort ==
    pc = "returned_impact" =>
        LET a == result.impact.bullets
            w == weak_bullets
            n == Len(a)
            K == args.count
        IN  /\ Len(w) = (IF K < n THEN K ELSE n)
            /\ \A i \in 1..(Len(w) - 1) :
                 w[i].impact_score <= w[i + 1].impact_score
            /\ \E f \in [ 1..Len(w) -> 1..n ] :
                 /\ \A i \in 1..Len(w) : w[i] = a[f[i]]
                 /\ \A i, j \in 1..Len(w) :
                      i < j =>
                        \/ a[f[i]].impact_score < a[f[j]].impact_score
                        \/ /\ a[f[i]].impact_score = a[f[j]].impact_score
                           /\ f[i] < f[j]
                 /\ \A m \in 1..n :
                      (\A i \in 1..Len(w) : f[i] # m) =>
                        \A i \in 1..Len(w) :
                          \/ a[m].impact_score > a[f[i]].impact_score
                          \/ /\ a[m].impact_score = a[f[i]].impact_score
                             /\ m > f[i]
            /\ (resume_bullets = ScoreExampleBullets /\ K = 2) =>
                 [ i \in 1..Len(w) |-> w[i].impact_score ] = << 20, 30 >>

\* The two weakest of the bullets that score 90, 30, 50 and 20 are returned
\* as 20, 30.
C11_Witness ==
    /\ pc = "returned_impact"
    /\ resume_bullets = ScoreExampleBullets
    /\ [ i \in 1..4 |-> result.impact.bullets[i].impact_score ]
         = << 90, 30, 50, 20 >>
    /\ args.count = 2
    /\ Len(weak_bullets) = 2
    /\ weak_bullets[1].impact_score = 20
    /\ weak_bullets[2].impact_score = 30

\* The kinds of number the quantification examples carry.
HasPercentage(t) == \E i \in 1..Len(t) : IsDigit(At(t, i)) /\ At(t, i + 1) = "%"

HasDollarAmount(t) == \E i \in 1..Len(t) : At(t, i) = "$" /\ IsDigit(At(t, i + 1))

HasNumber(t) == \E i \in 1..Len(t) : IsDigit(t[i])

\* C12: detect_quantification is true for a bullet with a percentage, a
\* dollar amount or a count of people and false for a bullet without a
\* number: true for "Increased sales by 25%", "Generated $2M in revenue" and
\* "Led team of 5 engineers", false for "Helped with various tasks".
C12_QuantificationExamples ==
    pc = "returned_detect" =>
        /\ HasPercentage(args.bullet) => retval = TRUE
        /\ HasDollarAmount(args.bullet) => retval = TRUE
        /\ ~HasNumber(args.bullet) => retval = FALSE
        /\ args.bullet = TextIncreased => retval = TRUE
        /\ args.bullet = TextGenerated => retval = TRUE
        /\ args.bullet = TextLed => retval = TRUE
        /\ args.bullet = TextHelped => retval = FALSE

\* What detect_quantification does on the examples: the count of engineers
\* is not found, the three other answers are as stated.
C12_QuantificationAsCoded ==
    pc = "returned_detect" =>
        /\ HasPercentage(args.bullet) => retval = TRUE
        /\ HasDollarAmount(args.bullet) => retval = TRUE
        /\ ~HasNumber(args.bullet) => retval = FALSE
        /\ args.bullet = TextIncreased => retval = TRUE
        /\ args.bullet = TextGenerated => retval = TRUE
        /\ args.bullet = TextLed => retval = FALSE
        /\ args.bullet = TextHelped => retval = FALSE

\* detect_quantification has answered for "Led team of 5 engineers".
C12_Witness ==
    /\ pc = "returned_detect"
    /\ args.bullet = TextLed
    /\ retval = FALSE

\* How many keywords of the list match_keywords finds in a given state.
CountState(resume, keywords, state) ==
    Cardinality({ i \in 1..Len(keywords) :
                    MatchState(LowerText(resume), keywords[i]) = state })

\* C13: calculate_coverage_score(matched, total) is 100 x matched / total,
\* to the hundredth, and at most 100; it is 0 whenever total is 0; (7,10)
\* gives 70, (10,10) gives 100, (0,10) gives 0 and (5.5,10) gives 55; in
\* analyze_keywords, with matched = exact + 0.5 x partial, the score lies
\* in [0,100].
C13_CoverageScore ==
    /\ pc = "returned_coverage" =>
         LET mh == args.matched_halves
             total == args.total_count
         IN  /\ total = 0 => retval = 0
             /\ (total # 0 /\ mh >= 2 * total) => retval = 100 * Hundredths
             /\ (total # 0 /\ mh < 2 * total) =>
                  /\ retval <= 100 * Hundredths
                  /\ 2 * (retval * 2 * total - mh * 100 * Hundredths) <= 2 * total
                  /\ 2 * (mh * 100 * Hundredths - retval * 2 * total) <= 2 * total
             /\ (mh = 14 /\ total = 10) => retval = 70 * Hundredths
             /\ (mh = 20 /\ total = 10) => retval = 100 * Hundredths
             /\ (mh = 0 /\ total = 10) => retval = 0
             /\ (mh = 11 /\ total = 10) => retval = 55 * Hundredths
    /\ pc = "returned_keywords" =>
         LET mh == 2 * CountState(args.resume, args.keywords, "exact")
                     + CountState(args.resume, args.keywords, "partial")
             total == Len(args.keywords)
         IN  /\ retval.coverage_score \in 0..(100 * Hundredths)
             /\ total = 0 => retval.coverage_score = 0
             /\ total # 0 =>
                  /\ 2 * (retval.coverage_score * 2 * total
                            - mh * 100 * Hundredths) <= 2 * total
                  /\ 2 * (mh * 100 * Hundredths
                            - retval.coverage_score * 2 * total) <= 2 * total

\* Fifteen matches of ten keywords have been scored 100.
C13_Witness ==
    /\ pc = "returned_coverage"
    /\ args.matched_halves = 30
    /\ args.total_count = 10
    /\ retval = 100 * Hundredths

\* The elements of a list.
Range(seq) == { seq[i] : i \in 1..Len(seq) }

\* The keyword stands in the resume as a whole word, whatever the case.
IsWholeWord(keyword, resume) ==
    LET k == LowerText(keyword)
        r == LowerText(resume)
    IN  \E o \in 0..(Len(r) - Len(k)) :
          /\ SubSeq(r, o + 1, o + Len(k)) = k
          /\ WordBoundary(r, o + 1)
          /\ WordBoundary(r, o + Len(k) + 1)

\* The lemma of the keyword is a substring of the lowercased resume.
IsLemmaInside(keyword, resume) ==
    LET lemma == lemmatize_word(LowerText(keyword))
        r == LowerText(resume)
    IN  \E o \in 0..(Len(r) - Len(lemma)) :
          SubSeq(r, o + 1, o + Len(lemma)) = lemma

\* C14: match_keywords puts every keyword in exactly one of exact, partial
\* and missing, by priority: exact when it is a whole word of the resume,
\* case-insensitively; otherwise partial when its lemma is a substring of
\* the lowercased resume; otherwise missing.  The three buckets total the
\* number of keywords and each keeps the order of the list.
C14_MatchBuckets ==
    pc = "returned_keywords" =>
      LET m == retval.matches
          ks == args.keywords
          r == args.resume
      IN  /\ DOMAIN m = { "exact", "partial", "missing" }
          /\ Len(m.exact) + Len(m.partial) + Len(m.missing) = Len(ks)
          /\ m.exact = SelectSeq(ks, LAMBDA k : IsWholeWord(k, r))
          /\ m.partial =
               SelectSeq(ks, LAMBDA k : ~IsWholeWord(k, r) /\ IsLemmaInside(k, r))
          /\ m.missing =
               SelectSeq(ks, LAMBDA k : ~IsWholeWord(k, r) /\ ~IsLemmaInside(k, r))
          /\ \A i \in 1..Len(ks) :
               Cardinality({ b \in DOMAIN m : ks[i] \in Range(m[b]) }) = 1

\* A whole word and a keyword found only by its lemma have been matched
\* against one resume, in that order.
C14_Witness ==
    /\ pc = "returned_keywords"
    /\ args.resume = ResumeSenior
    /\ args.keywords = << KwPython, KwDocker >>
    /\ retval.matches.exact = << KwPython >>
    /\ retval.matches.partial = << KwDocker >>
    /\ retval.matches.missing = << >>

\* categorize_keywords has returned.
Categorized == pc \in { "call_match", "returned_keywords" }

\* The category lists a keyword appears in.
ListsOf(keyword) ==
    { c \in DOMAIN retval.keywords : keyword \in Range(retval.keywords[c]) }

ReferenceCategories == { "technical_skills", "soft_skills", "tools", "certifications" }

ReferenceSet(c) ==
    CASE c = "technical_skills" -> technical_skills
      [] c = "soft_skills"      -> soft_skills
      [] c = "tools"            -> tools
      [] c = "certifications"   -> certifications

\* Some entry of the category's reference set is a substring of the
\* keyword, whatever the keyword's case.
HasEntryInside(keyword, c) ==
    LET k == LowerText(keyword)
    IN  \E entry \in ReferenceSet(c) :
          \E o \in 0..(Len(k) - Len(entry)) :
            SubSeq(k, o + 1, o + Len(entry)) = entry

\* C16: categorize_keywords lists a keyword under every one of the four
\* reference categories whose set has an entry that is a case-insensitive
\* substring of the keyword, and under domain_terms if and only if none of
\* the four matched; a keyword equal to an entry of a reference set
\* ('Python', 'leadership', 'Docker') is listed in that set's category.
C16_NonExclusiveTags ==
    Categorized =>
      LET ks == args.keywords
          lists == retval.keywords
      IN  /\ \A c \in ReferenceCategories :
               lists[c] = SelectSeq(ks, LAMBDA k : HasEntryInside(k, c))
          /\ lists.domain_terms =
               SelectSeq(ks, LAMBDA k :
                   \A c \in ReferenceCategories : ~HasEntryInside(k, c))
          /\ \A i \in 1..Len(ks) : \A c \in ReferenceCategories :
               LowerText(ks[i]) \in ReferenceSet(c) => ks[i] \in Range(lists[c])
          /\ KwPython \in Range(ks) => KwPython \in Range(lists.technical_skills)
          /\ KwLeadership \in Range(ks) => KwLeadership \in Range(lists.soft_skills)
          /\ KwDocker \in Range(ks) => KwDocker \in Range(lists.tools)

\* 'leadership' and 'Docker' have been categorized: one is a soft skill,
\* the other a tool.
C16_Witness ==
    /\ Categorized
    /\ args.keywords = << KwLeadership, KwDocker >>
    /\ KwLeadership \in Range(retval.keywords.soft_skills)
    /\ KwDocker \in Range(retval.keywords.tools)
    /\ KwLeadership \notin Range(retval.keywords.tools)

\* C17, as stated: cleaning a cleaned text changes nothing, and normalizing
\* a normalized job description changes nothing.
C17_NormalizationIdempotent ==
    /\ pc = "returned_clean" => retval.twice = retval.once
    /\ pc = "returned_normalize" => retval.twice = retval.once

\* C17, the part the code keeps: clean_text(clean_text(t)) = clean_text(t),
\* and a cleaned text has no whitespace but single spaces between other
\* characters.
C17_CleanTextIdempotent ==
    pc = "returned_clean" =>
      /\ retval.twice = retval.once
      /\ \A i \in 1..Len(retval.once) :
           IsSpace(retval.once[i]) =>
             /\ retval.once[i] = " "
             /\ i \notin { 1, Len(retval.once) }
             /\ ~IsSpace(retval.once[i + 1])

\* "Apply click here now" was normalized to "Apply now", and that to the
\* empty text.
C17_Witness ==
    /\ pc = "returned_normalize"
    /\ args.text = FragApply \o FragClickHere \o FragNow
    /\ retval.once = << "A", "p", "p", "l", "y", " ", "n", "o", "w" >>
    /\ retval.twice = << >>

\* C18, as stated: calculate_final_score leaves the caller's mapping as it
\* was, also when components are absent from it, and a second call with the
\* same input returns the same final_score and breakdown.
C18_PureFunction ==
    /\ pc \in { "returned_score", "returned_again" } =>
         components = args.components
    /\ pc = "returned_again" => retval = score_result

\* C18, as the code has it: after the call the caller's mapping holds all
\* six components, those it had with their values and the others with 0,
\* so it is unchanged only if it was complete; a second call with the same
\* input returns the same final_score and breakdown.
C18_ArgumentFilled ==
    /\ pc \in { "returned_score", "returned_again" } =>
         /\ DOMAIN components = ComponentSet
         /\ \A c \in ComponentSet :
              components[c] =
                IF c \in DOMAIN args.components THEN args.components[c] ELSE 0
         /\ DOMAIN args.components = ComponentSet => components = args.components
    /\ pc = "returned_again" =>
         /\ retval.final_score = score_result.final_score
         /\ retval.breakdown = score_result.breakdown

\* A mapping with keyword_match alone has been scored twice: it now has six
\* entries.
C18_Witness ==
    /\ pc = "returned_again"
    /\ DOMAIN args.components = { "keyword_match" }
    /\ DOMAIN components = ComponentSet
    /\ components.semantic_match = 0
    /\ retval = score_result

\* The mapping with every absent component written as 0.
WithZeros(comps) ==
    [ c \in ComponentSet |-> IF c \in DOMAIN comps THEN comps[c] ELSE 0 ]

\* C19: a component that is absent from the input of calculate_final_score
\* is scored as 0: final_score and breakdown are those of the same input
\* with the component set to 0, and the breakdown has exactly the six named
\* entries.
C19_AbsentScoredZero ==
    pc = "returned_score" =>
      LET given == WithZeros(args.components)
          unit  == 100 * Hundredths
          diff  == score_result.final_score * unit - WeightedTotal(given)
      IN  /\ DOMAIN score_result.breakdown = ComponentSet
          /\ Cardinality(DOMAIN score_result.breakdown) = 6
          /\ score_result = calculate_final_score(weights, given)
          /\ 2 * diff <= unit /\ 2 * diff >= -unit
          /\ \A c \in ComponentSet :
               /\ score_result.breakdown[c].score = IntoRange(given[c])
               /\ c \notin DOMAIN args.components =>
                    /\ score_result.breakdown[c].score = 0
                    /\ score_result.breakdown[c].contribution = 0

\* A mapping with keyword_match 65 alone has been scored 20 (19.5 rounded),
\* and its breakdown has the five other components at 0.
C19_Witness ==
    /\ pc = "returned_score"
    /\ DOMAIN args.components = { "keyword_match" }
    /\ args.components.keyword_match = 65 * Hundredths
    /\ score_result.final_score = 20
    /\ score_result.breakdown.format_compliance.score = 0

\* C20: the weights are keyword_match 0.30, semantic_match 0.25,
\* impact_strength 0.15, skills_alignment 0.10, experience_alignment 0.10
\* and format_compliance 0.10; they sum to 1.0 within 0.001, as asserted at
\* construction; and they are the same after calculate_final_score,
\* get_weights and identify_top_improvements, get_weights returning them.
C20_WeightsFixed ==
    /\ weights =
         [ keyword_match |-> 30, semantic_match |-> 25, impact_strength |-> 15,
           skills_alignment |-> 10, experience_alignment |-> 10,
           format_compliance |-> 10 ]
    /\ LET sum == weights.keyword_match + weights.semantic_match
                   + weights.impact_strength + weights.skills_alignment
                   + weights.experience_alignment + weights.format_compliance
       IN  10 * (sum - 100) < 1 /\ 10 * (100 - sum) < 1
    /\ pc = "returned_weights" => retval = weights

\* calculate_final_score, get_weights and identify_top_improvements have
\* run, the last on a breakdown with keyword_match at 65.
C20_Witness ==
    /\ pc = "returned_improvements"
    /\ score_result.breakdown.keyword_match.score = 65 * Hundredths
    /\ Len(retval) = 6
    /\ weights.keyword_match = 30

\* new_impact_score as project_improved_score reports it: the delta of its
\* breakdown on top of the current impact_strength.
NewImpactScore ==
    projection.breakdown.impact_strength
      + (IF "impact_strength" \in DOMAIN score_result.breakdown
         THEN score_result.breakdown.impact_strength.score ELSE 0)

\* The bullet's text is the 'original' of some rewrite.
IsRewritten(bullet) == \E i \in 1..Len(rewrites) : rewrites[i].original = bullet.text

RECURSIVE ScoresAfterRewrite(_)
\* The sum over the first n original bullets of 95 for a rewritten bullet
\* and of its own impact score otherwise.
ScoresAfterRewrite(n) ==
    IF n = 0 THEN 0
    ELSE (IF IsRewritten(result.impact.bullets[n]) THEN 95
          ELSE result.impact.bullets[n].impact_score)
         + ScoresAfterRewrite(n - 1)

\* C21: _calculate_new_impact_score is the average, to the hundredth, over
\* all original bullets of 95 for every bullet whose text is the 'original'
\* of some rewrite, several bullets of that text included, and of the
\* bullet's own impact score otherwise; it is 0 when there are no bullets.
C21_NewImpactAverage ==
    pc = "returned_project" =>
      LET n == Len(result.impact.bullets)
          diff == NewImpactScore * n - ScoresAfterRewrite(n) * Hundredths
      IN  /\ n = 0 => NewImpactScore = 0
          /\ n > 0 => 2 * diff <= n /\ 2 * diff >= -n
          /\ (n > 0 /\ \A i \in 1..n : IsRewritten(result.impact.bullets[i])) =>
               NewImpactScore = 95 * Hundredths

\* Of three bullets two share the text of the one rewrite: both count 95.
C21_Witness ==
    /\ pc = "returned_project"
    /\ Len(result.impact.bullets) = 3
    /\ result.impact.bullets[1].text = result.impact.bullets[3].text
    /\ Len(rewrites) = 1
    /\ rewrites[1].original = result.impact.bullets[1].text
    /\ ~IsRewritten(result.impact.bullets[2])
    /\ NewImpactScore =
         RoundHalfEven((95 + result.impact.bullets[2].impact_score + 95)
                         * Hundredths, 3)
    /\ result.impact.bullets[1].impact_score < 95

\* new_keyword_score as project_improved_score reports it: the delta of
\* its breakdown on top of the current keyword_match.
CurrentCoverage ==
    IF "keyword_match" \in DOMAIN score_result.breakdown
    THEN score_result.breakdown.keyword_match.score ELSE 0

NewKeywordScore == projection.breakdown.keyword_coverage + CurrentCoverage

\* The number of keywords, told apart without regard to case, that the
\* rewrites list as added.
DistinctAdded ==
    Cardinality(UNION { { Lower(k) : k \in Range(r.keywords_added) } :
                        r \in Range(rewrites) })

\* C22: _calculate_new_keyword_coverage is
\* 100 x min(current_coverage / 100 x total_keywords + d, total_keywords)
\* / total_keywords, to the hundredth, d being the number of distinct
\* keywords, case apart, the rewrites added; it is never below
\* current_coverage and never above 100, and it is current_coverage when
\* total_keywords is 0.
C22_NewKeywordCoverage ==
    pc = "returned_project" =>
      LET unit == 100 * Hundredths
          total == total_keywords
          matches == CurrentCoverage * total + DistinctAdded * unit
          capped == IF matches > total * unit THEN total * unit ELSE matches
          diff == NewKeywordScore * total - capped
      IN  /\ CurrentCoverage \in 0..unit
          /\ total = 0 => NewKeywordScore = CurrentCoverage
          /\ total > 0 =>
               /\ 2 * diff <= total /\ 2 * diff >= -total
               /\ NewKeywordScore >= CurrentCoverage
               /\ NewKeywordScore <= unit

\* Two rewrites have added the same two keywords, and one keyword was
\* listed in two spellings: each counts once.
C22_Witness ==
    /\ pc = "returned_project"
    /\ Len(rewrites) = 2
    /\ rewrites[1].keywords_added = << "Docker", "docker" >>
    /\ rewrites[2].keywords_added = << "Docker", "docker" >>
    /\ DistinctAdded = 1
    /\ total_keywords = TOP_KEYWORDS_COUNT
    /\ CurrentCoverage = 70 * Hundredths
    /\ NewKeywordScore = 73 * Hundredths + 33

\* C23: in every result of project_improved_score, improvement is
\* projected_score - current_score, negative if the projection is lower;
\* percentage_gain is improvement / current_score x 100, to the hundredth,
\* when current_score > 0, and 0 when current_score is 0.
C23_ImprovementAndGain ==
    pc = "returned_project" =>
      LET current == projection.current_score
          diff == projection.percentage_gain * current
                    - projection.improvement * 100 * Hundredths
      IN  /\ current = score_result.final_score
          /\ projection.improvement = projection.projected_score - current
          /\ current > 0 => 2 * diff <= current /\ 2 * diff >= -current
          /\ current = 0 => projection.percentage_gain = 0

\* A projection below a positive current score: improvement and
\* percentage_gain are negative.
C23_Witness ==
    /\ pc = "returned_project"
    /\ projection.current_score > 0
    /\ projection.projected_score < projection.current_score
    /\ projection.improvement < 0
    /\ projection.percentage_gain < 0

\* The strength label is among the strengths of the analysis.
HasStrength(analysis, label) == label \in Range(analysis.strengths)

\* The weakness label is among the weaknesses of the analysis.
HasWeakness(analysis, label) == label \in Range(analysis.weaknesses)

\* Exactly one label of the pair, the strength when the feature is present.
OneLabel(analysis, present, strength, weakness) ==
    /\ HasStrength(analysis, strength) <=> present
    /\ HasWeakness(analysis, weakness) <=> ~present
    /\ ~HasWeakness(analysis, strength)
    /\ ~HasStrength(analysis, weakness)

\* C24, as stated: for every bullet and each of quantification, strong
\* action verb, conciseness and active voice, analyze_bullet_impact gives
\* exactly one label, the strength when the feature is present and the
\* weakness when it is absent.
C24_LabelsSymmetric ==
    pc # "call_impact" =>
      \A i \in 1..Len(result.impact.bullets) :
        LET b == resume_bullets[i]
            a == result.impact.bullets[i]
        IN  /\ OneLabel(a, b.quant, "contains metrics", "no quantifiable metrics")
            /\ OneLabel(a, b.strong, "strong action verb", "no strong action verb")
            /\ OneLabel(a, b.concise, "concise", "too verbose")
            /\ OneLabel(a, b.active, "active voice", "passive voice")

\* C24, as the code has it: quantification, conciseness and active voice
\* get exactly one label each; a strong action verb gets its strength, and
\* its absence gets "no strong action verb" only when the bullet has no weak
\* phrase: a bullet with a weak phrase and no strong verb gets neither.
C24_LabelsAsCoded ==
    pc # "call_impact" =>
      \A i \in 1..Len(result.impact.bullets) :
        LET b == resume_bullets[i]
            a == result.impact.bullets[i]
        IN  /\ OneLabel(a, b.quant, "contains metrics", "no quantifiable metrics")
            /\ OneLabel(a, b.concise, "concise", "too verbose")
            /\ OneLabel(a, b.active, "active voice", "passive voice")
            /\ HasStrength(a, "strong action verb") <=> b.strong
            /\ HasWeakness(a, "no strong action verb")
                 <=> (~b.strong /\ b.weak = << >>)
            /\ ~(HasStrength(a, "strong action verb")
                   /\ HasWeakness(a, "no strong action verb"))

\* A bullet with a weak phrase and no strong verb has been analysed: it
\* carries neither label of the strong-verb feature.
C24_Witness ==
    /\ pc = "returned_impact"
    /\ Len(resume_bullets) = 1
    /\ ~resume_bullets[1].strong
    /\ resume_bullets[1].weak = << "helped" >>
    /\ ~HasStrength(result.impact.bullets[1], "strong action verb")
    /\ ~HasWeakness(result.impact.bullets[1], "no strong action verb")
    /\ HasWeakness(result.impact.bullets[1], "weak phrase: 'helped'")

\* clean_text of each resume text of the model.
CleanedResume ==
    [ content \in ResumeContents \cup { NoContent } |->
        clean_text(ResumeChars(content.text)) ]

C26_EverythingCertified ==
    /\ << >> \in certifications
    /\ \A keyword \in KeywordTexts : IsSubstring(<< >>, LowerText(keyword))
    /\ Categorized =>
         /\ retval.keywords.certifications = args.keywords
         /\ retval.keywords.domain_terms = << >>
         /\ \A keyword \in Range(args.keywords) :
              "certifications" \in ListsOf(keyword)

\* A list with 'budget', which no non-empty entry of any reference set
\* matches, has been categorized: it is a certification and nothing else.
C26_Witness ==
    /\ Categorized
    /\ Len(args.keywords) >= 2
    /\ KwBudget \in Range(args.keywords)
    /\ ListsOf(KwBudget) = { "certifications" }
    /\ ~ \E entry \in certifications \ { << >> } :
           IsSubstring(entry, LowerText(KwBudget))

\* The average impact score of the analysed bullets, rounded to the
\* hundredth, as analyze_all_bullets reports it.
AverageImpact ==
    IF result.impact.bullets = << >> THEN 0
    ELSE RoundHalfEven(SumImpact(result.impact.bullets) * Hundredths,
                       Len(result.impact.bullets))

\* Nothing was rewritten and the projection starts from the live score.
NothingRewritten ==
    /\ pc = "returned_project"
    /\ rewrites = << >>
    /\ total_keywords > 0
    /\ score_result = calculate_final_score(weights, FillMissing(components))
    /\ score_result.breakdown.impact_strength.score = AverageImpact

\* C27: when score_result is calculate_final_score of the components, the
\* rewrite list is empty and impact_strength is the rounded average impact
\* score of the original bullets, project_improved_score returns the live
\* final score as projected_score, an improvement of 0 and both component
\* deltas 0, for every positive total_keywords.
C27_ProjectionOfNothing ==
    NothingRewritten =>
      /\ projection.projected_score = score_result.final_score
      /\ projection.current_score = score_result.final_score
      /\ projection.improvement = 0
      /\ projection.percentage_gain = 0
      /\ projection.breakdown.impact_strength = 0
      /\ projection.breakdown.keyword_coverage = 0

\* Two analysed bullets, missing keywords on the list, a keyword score of
\* 33.33 and TOP_KEYWORDS_COUNT keywords: the projection is the live score.
C27_Witness ==
    /\ NothingRewritten
    /\ Len(result.impact.bullets) = 2
    /\ missing_keywords # << >>
    /\ total_keywords = TOP_KEYWORDS_COUNT
    /\ score_result.breakdown.keyword_match.score = 33 * Hundredths + 33
    /\ score_result.final_score > 0
    /\ projection.projected_score = score_result.final_score

\* The pipeline has answered 200; it has computed its projection.
Answered == pc = "done" /\ http_status = 200

Projected == pc = "respond" \/ Answered

\* The analysed bullets for which rewrite_bullets returned a rewrite.
RewrittenBullets ==
    { b \in Range(result.impact.bullets) :
        \E r \in Range(rewrites) : r.original = b.text }

\* C28: in analyze_resume the improvement, projected_score - final_score,
\* is not negative when every rewritten bullet had an impact score of at
\* most 95; the projected impact falls below the current one only when a
\* rewritten bullet scored above 95, the projected keyword coverage never
\* decreases and the other four components are carried over unchanged.
C28_ImprovementNotNegative ==
    /\ Projected =>
         /\ projection.improvement
              = projection.projected_score - score_result.final_score
         /\ (\A b \in RewrittenBullets : b.impact_score <= REWRITE_SCORE)
              => /\ projection.improvement >= 0
                 /\ projection.breakdown.impact_strength >= 0
         /\ projection.breakdown.impact_strength < 0
              => \E b \in RewrittenBullets : b.impact_score > REWRITE_SCORE
         /\ projection.improvement < 0
              => \E b \in RewrittenBullets : b.impact_score > REWRITE_SCORE
         /\ projection.breakdown.keyword_coverage >= 0
         /\ LET projected_components ==
                  ProjectedComponents(
                    score_result.breakdown,
                    calculate_new_impact_score(result.impact.bullets, rewrites),
                    calculate_new_keyword_coverage(
                      BreakdownScore(score_result.breakdown, "keyword_match"),
                      rewrites, result.keyword.missing_keywords,
                      total_keywords))
            IN  \A c \in ComponentSet \ { "impact_strength", "keyword_match" } :
                  projected_components[c] = components[c]
    /\ Answered =>
         response.improvement_delta
           = response.projected_score - response.final_score

\* A response whose only bullet scored 80 and was rewritten: the projected
\* impact rises to 95 and the improvement is positive.
C28_Witness ==
    /\ Answered
    /\ rewrites # << >>
    /\ RewrittenBullets # { }
    /\ \A b \in RewrittenBullets : b.impact_score < REWRITE_SCORE
    /\ projection.breakdown.impact_strength > 0
    /\ response.improvement_delta > 0

\* C29: analyze_resume feeds the semantic score to semantic_match and to
\* experience_alignment, so the two components are equal in every
\* analysis; after an embedding failure both are 50 and the fallback
\* carries the weight of both, 35% of the final score: 17.5 points.
C29_ExperienceIsSemantic ==
    /\ score_result # NoScore =>
         /\ components.semantic_match = result.semantic
         /\ components.experience_alignment = components.semantic_match
         /\ score_result.breakdown.experience_alignment.score
              = score_result.breakdown.semantic_match.score
         /\ weights.semantic_match + weights.experience_alignment = 35
         /\ EmbeddingExhausted =>
              /\ components.semantic_match = SemanticFallback
              /\ components.experience_alignment = SemanticFallback
              /\ score_result.breakdown.semantic_match.contribution
                   + score_result.breakdown.experience_alignment.contribution
                   = (35 * SemanticFallback) \div 100
    /\ Answered =>
         response.breakdown.experience_alignment.score
           = response.breakdown.semantic_match.score

\* A request whose first embedding call failed three times has been
\* answered: both components are 50.
C29_Witness ==
    /\ Answered
    /\ emb.log = << << FALSE, FALSE, FALSE >> >>
    /\ response.breakdown.semantic_match.score = 50 * Hundredths
    /\ response.breakdown.experience_alignment.score = 50 * Hundredths
    /\ response.breakdown.semantic_match.contribution = 1250
    /\ response.breakdown.experience_alignment.contribution = 500

\* The keywords the job description yielded for this request.
KeywordsFound == Len(Take(request.jd_terms, TOP_KEYWORDS_COUNT))

\* The projected keyword_match score, in hundredths.
ProjectedKeywordMatch ==
    score_result.breakdown.keyword_match.score
      + projection.breakdown.keyword_coverage

====
